---- MODULE Spec2Model ----
(***************************************************************************)
(* Four-pillar (bazi) chart computation of BaziAnalyzer                    *)
(* (src/server/services/yijingAnalyzer.cjs): pillar computation, the       *)
(* ten-god relation, and the elemental-strength scorer.                    *)
(*                                                                         *)
(* Chinese symbols are written in pinyin.  Stems 甲乙丙丁戊己庚辛壬癸 are  *)
(* jia yi bing ding wu ji geng xin ren gui; branches 子丑寅卯辰巳午未申酉  *)
(* 戌亥 are zi chou yin mao chen si wuB wei shen you xu hai; the elements  *)
(* 木火土金水 are wood fire earth metal water.                             *)
(*                                                                         *)
(* Scores are JavaScript numbers (IEEE 754 doubles); the model keeps each  *)
(* as its thousandths and its distance from them (see DoubleRound).        *)
(***************************************************************************)
EXTENDS Integers, Sequences, FiniteSets, TLC

VARIABLES
  op,       \* the entry point that is called: "bazi", "tenGod" or "level"
  input,    \* the arguments of the call
  result,   \* what the call returned (NoResult before it returns)
  lookups,  \* the external collaborator queries issued by the call, in order
  pc,       \* "call" before the entry point runs, "done" after it returned
  collaborators,  \* how the boundary resolver and the day-pillar lookup answer
  now,      \* the clock, in hours since 1900-01-01T00:00Z
  cache,    \* the entries of the analyzer's AnalysisCache
  calls,    \* the performFullBaziAnalysis calls made so far, in order of arrival
  config,   \* AI_RATE_LIMIT_ENABLED and AI_DAILY_LIMIT of the rate limiter
  usage,    \* the rows of table ai_api_usage
  passed,   \* per (ip, date), the requests aiRateLimit handed to next()
  last      \* the latest aiRateLimit invocation: request, table before, response

serviceVars == <<collaborators, now, cache, calls>>

limiterVars == <<config, usage, passed, last>>

vars == <<op, input, result, lookups, pc, collaborators, now, cache, calls,
          config, usage, passed, last>>

----------------------------------------------------------------------------
(* Bounds of the model *)

\* calendar years of birth run from BaseYear - YearsBefore to BaseYear + YearsAfter
YearsBefore == 1
YearsAfter == 1

\* getStrengthLevel is called with scores from -MaxScoreUnits to MaxScoreUnits
MaxScoreUnits == 7

----------------------------------------------------------------------------
(* Sexagenary tables *)

\* the reference year of calculateYearPillar (a jia-zi year)
BaseYear == 1984

Stems == <<"jia", "yi", "bing", "ding", "wu", "ji", "geng", "xin", "ren", "gui">>

Branches == <<"zi", "chou", "yin", "mao", "chen", "si", "wuB", "wei", "shen", "you", "xu", "hai">>

Elements == {"wood", "fire", "earth", "metal", "water"}

\* BaseData.getStemByIndex / getBranchByIndex (indices are 0-based in the code)
getStemByIndex(i) == IF i \in 0..9 THEN Stems[i + 1] ELSE "undefined"

getBranchByIndex(i) == IF i \in 0..11 THEN Branches[i + 1] ELSE "undefined"

\* BaseData.getStemIndex / getBranchIndex: the 0-based position of a name
getStemIndex(stem) == (CHOOSE i \in 1..10 : Stems[i] = stem) - 1

getBranchIndex(branch) == (CHOOSE i \in 1..12 : Branches[i] = branch) - 1

\* Array.prototype.indexOf on the branchNames literal of calculateMonthPillar
branchNamesIndexOf(b) ==
  IF \E i \in 1..12 : Branches[i] = b
    THEN (CHOOSE i \in 1..12 : Branches[i] = b) - 1
    ELSE -1

\* BaseData.getBranchHiddenStems: main, middle, residual hidden stems
getBranchHiddenStems(branch) ==
  CASE branch = "zi"   -> <<"gui">>
    [] branch = "chou" -> <<"ji", "gui", "xin">>
    [] branch = "yin"  -> <<"jia", "bing", "wu">>
    [] branch = "mao"  -> <<"yi">>
    [] branch = "chen" -> <<"wu", "yi", "gui">>
    [] branch = "si"   -> <<"bing", "geng", "wu">>
    [] branch = "wuB"  -> <<"ding", "ji">>
    [] branch = "wei"  -> <<"ji", "ding", "yi">>
    [] branch = "shen" -> <<"geng", "ren", "wu">>
    [] branch = "you"  -> <<"xin">>
    [] branch = "xu"   -> <<"wu", "xin", "ding">>
    [] branch = "hai"  -> <<"ren", "jia">>
    [] OTHER -> <<>>

getElementFromStem(stem) ==
  CASE stem \in {"jia", "yi"}   -> "wood"
    [] stem \in {"bing", "ding"} -> "fire"
    [] stem \in {"wu", "ji"}     -> "earth"
    [] stem \in {"geng", "xin"}  -> "metal"
    [] stem \in {"ren", "gui"}   -> "water"
    [] OTHER -> "earth"

getStemYinYang(stem) ==
  IF stem \in {"jia", "bing", "wu", "geng", "ren"} THEN "yang" ELSE "yin"

generateCycle ==
  [wood |-> "fire", fire |-> "earth", earth |-> "metal", metal |-> "water", water |-> "wood"]

overcomeCycle ==
  [wood |-> "earth", fire |-> "metal", earth |-> "water", metal |-> "wood", water |-> "fire"]

\* getElementRelation naming the fourth relation as the tenGods table does
getElementRelation_Typo(element1, element2) ==
  IF element1 = element2 THEN "same"
  ELSE IF generateCycle[element1] = element2 THEN "generate"
  ELSE IF overcomeCycle[element1] = element2 THEN "overcome"
  ELSE IF generateCycle[element2] = element1 THEN "beGenerate"
  ELSE IF overcomeCycle[element2] = element1 THEN "beOvercome"
  ELSE "neutral"

getElementRelation(element1, element2) ==
  IF element1 = element2 THEN "same"
  ELSE IF generateCycle[element1] = element2 THEN "generate"
  ELSE IF overcomeCycle[element1] = element2 THEN "overcome"
  ELSE IF generateCycle[element2] = element1 THEN "beGenerated"
  ELSE IF overcomeCycle[element2] = element1 THEN "beOvercome"
  ELSE "neutral"

----------------------------------------------------------------------------
(* JavaScript arithmetic and Date *)

\* the % operator of JavaScript: the remainder takes the sign of the dividend
JsRem(a, n) == IF a >= 0 THEN a % n ELSE -((-a) % n)

IsLeapYear(y) == (y % 4 = 0 /\ y % 100 # 0) \/ y % 400 = 0

DaysInMonth(y, m) ==
  IF m = 2 THEN (IF IsLeapYear(y) THEN 29 ELSE 28)
  ELSE IF m \in {4, 6, 9, 11} THEN 30 ELSE 31

\* new Date(year, month - 1, day + 1), read back with getFullYear / getMonth + 1 / getDate
NextDay(y, m, d) ==
  IF d + 1 <= DaysInMonth(y, m) THEN [year |-> y, month |-> m, day |-> d + 1]
  ELSE IF m < 12 THEN [year |-> y, month |-> m + 1, day |-> 1]
  ELSE [year |-> y + 1, month |-> 1, day |-> 1]

----------------------------------------------------------------------------
(* External collaborators: calendar boundary resolver and day-pillar lookup *)

\* first day of the solar month that begins in calendar month m (fixed
\* per-month almanac approximation; Start of Spring is 4 February)
SolarMonthStartDay(m) == <<6, 4, 6, 5, 6, 6, 7, 8, 8, 8, 7, 7>>[m]

\* SolarTermsCalculator.isAfterSpringBeginning: on or after Start of Spring of
\* the calendar year of the instant
isAfterSpringBeginning(year, month, day, hour) ==
  month > 2 \/ (month = 2 /\ day >= SolarMonthStartDay(2))

\* SolarTermsCalculator.getSolarTermMonth: the solar-month window of the instant.
\* The window that begins in February is yin, in March mao, ..., in January chou.
\* A resolver that cannot place the instant answers a branch name that is
\* none of the twelve.
getSolarTermMonth(year, month, day, hour) ==
  LET startedIn == IF day >= SolarMonthStartDay(month)
                     THEN month
                     ELSE (IF month = 1 THEN 12 ELSE month - 1)
  IN IF collaborators.resolver = "unknown"
       THEN [monthBranch |-> "unknown"]
       ELSE [monthBranch |-> getBranchByIndex(startedIn % 12)]

\* days from 1 January 1900 to the given Gregorian date
DaysSince1900(y, m, d) ==
  LET leapsUpTo(n) == (n \div 4) - (n \div 100) + (n \div 400)
      beforeYear == 365 * (y - 1900) + (leapsUpTo(y - 1) - leapsUpTo(1899))
      cumulative == <<0, 31, 59, 90, 120, 151, 181, 212, 243, 273, 304, 334>>
      beforeMonth == cumulative[m] + (IF m > 2 /\ IsLeapYear(y) THEN 1 ELSE 0)
  IN beforeYear + beforeMonth + (d - 1)

\* WanNianLi.getAccurateDayPillar: continuous 60-cycle count of days, anchored
\* to 1 January 1900 = jia-xu (cycle position 10)
getAccurateDayPillar(year, month, day) ==
  LET n == (10 + DaysSince1900(year, month, day)) % 60
  IN [stem |-> getStemByIndex(n % 10), branch |-> getBranchByIndex(n % 12),
      stemIndex |-> n % 10, branchIndex |-> n % 12]

----------------------------------------------------------------------------
(* Pillar computation *)

\* actualYearOf with the boundary test inverted
actualYearOf_Inverted(year, isAfterSpring) == IF isAfterSpring THEN year - 1 ELSE year

\* the year whose pillar is used: the calendar year on or after Start of
\* Spring, the year before otherwise
actualYearOf(year, isAfterSpring) == IF ~isAfterSpring THEN year - 1 ELSE year

\* finalIndexOf without the normalisation of a negative remainder
finalIndexOf_NoNormalize(index, n) == JsRem(index, n)

\* ((index % n) + n) % n
finalIndexOf(index, n) == JsRem(JsRem(index, n) + n, n)

calculateYearPillar(year, month, day, hour) ==
  LET isAfterSpring == isAfterSpringBeginning(year, month, day, hour)
      actualYear == actualYearOf(year, isAfterSpring)
      stemIndex == JsRem(actualYear - BaseYear, 10)
      branchIndex == JsRem(actualYear - BaseYear, 12)
      finalStemIndex == finalIndexOf(stemIndex, 10)
      finalBranchIndex == finalIndexOf(branchIndex, 12)
  IN [stem |-> getStemByIndex(finalStemIndex),
      branch |-> getBranchByIndex(finalBranchIndex),
      stemIndex |-> finalStemIndex,
      branchIndex |-> finalBranchIndex]

\* monthStemBase filled with the rat-start table of the hour pillar
monthStemBase_RatStart(yearStemIndex) == <<0, 2, 4, 6, 8, 0, 2, 4, 6, 8>>[yearStemIndex + 1]

\* the five-tiger table: year stem index -> stem index of the yin month
monthStemBase(yearStemIndex) == <<2, 4, 6, 8, 0, 2, 4, 6, 8, 0>>[yearStemIndex + 1]

calculateMonthPillar(year, month, day, yearStemIndex, hour) ==
  LET solarTermMonth == getSolarTermMonth(year, month, day, hour)
      monthBranchIndex == branchNamesIndexOf(solarTermMonth.monthBranch)
      \* a year stem index outside the table reads undefined and the sum is
      \* NaN, written -1 here: getStemByIndex answers undefined to both
      monthStemIndex ==
        IF yearStemIndex \in 0..9
          THEN JsRem(monthStemBase(yearStemIndex) + JsRem(monthBranchIndex - 2 + 12, 12), 10)
          ELSE -1
  IN [stem |-> getStemByIndex(monthStemIndex),
      branch |-> getBranchByIndex(monthBranchIndex),
      stemIndex |-> monthStemIndex,
      branchIndex |-> monthBranchIndex]

calculateDayPillar(year, month, day) == getAccurateDayPillar(year, month, day)

\* hourStemBase that starts the zi hour at the stem of the day itself
hourStemBase_DayStem(dayStemIndex) == dayStemIndex

\* the rat-start table: day stem index -> stem index of the zi hour
hourStemBase(dayStemIndex) == <<0, 2, 4, 6, 8, 0, 2, 4, 6, 8>>[dayStemIndex + 1]

\* actualDayStemIndex without the late-zi branch
actualDayStemIndex_SameDay(hour, dayStemIndex, year, month, day) == dayStemIndex

\* the day stem index that calculateHourPillar derives the hour stem from
actualDayStemIndex(hour, dayStemIndex, year, month, day) ==
  IF hour = 23
    THEN LET nextDay == NextDay(year, month, day)
         IN calculateDayPillar(nextDay.year, nextDay.month, nextDay.day).stemIndex
    ELSE dayStemIndex

\* hourBranchIndexOf without the zi case: hour 23 falls in the last double hour
hourBranchIndexOf_NoZi(hour) == JsRem(hour \div 2, 12)

\* hourBranchIndexOf with floor(hour / 2)
hourBranchIndexOf_NoShift(hour) ==
  IF hour = 23 \/ hour = 0 THEN 0 ELSE JsRem(hour \div 2, 12)

\* floor((hour + 1) / 2) % 12, with hours 23 and 0 set to 0 first
hourBranchIndexOf(hour) ==
  IF hour = 23 \/ hour = 0 THEN 0 ELSE JsRem((hour + 1) \div 2, 12)

calculateHourPillar(hour, dayStemIndex, year, month, day) ==
  LET isLateZiShi == (hour = 23)
      isEarlyZiShi == (hour # 23 /\ hour = 0)
      hourBranchIndex == hourBranchIndexOf(hour)
      hourStemIndex ==
        JsRem(hourStemBase(actualDayStemIndex(hour, dayStemIndex, year, month, day))
                + hourBranchIndex, 10)
  IN [stem |-> getStemByIndex(hourStemIndex),
      branch |-> getBranchByIndex(hourBranchIndex),
      stemIndex |-> hourStemIndex,
      branchIndex |-> hourBranchIndex,
      zishi_type |-> IF isLateZiShi THEN "lateZiShi"
                     ELSE IF isEarlyZiShi THEN "earlyZiShi" ELSE "null",
      is_late_zishi |-> isLateZiShi,
      is_early_zishi |-> isEarlyZiShi]

----------------------------------------------------------------------------
(* Ten-god relation *)

\* calculateTenGod that looks the relation up without regard to direction
calculateTenGod_Undirected(dayMaster, targetStem) ==
  IF dayMaster = targetStem THEN "bijian"
  ELSE
    LET dayElement == getElementFromStem(dayMaster)
        targetElement == getElementFromStem(targetStem)
        sameYinYang == (getStemYinYang(dayMaster) = getStemYinYang(targetStem))
    IN IF dayElement = targetElement
         THEN (IF sameYinYang THEN "bijian" ELSE "jiecai")
       ELSE IF generateCycle[dayElement] = targetElement
               \/ generateCycle[targetElement] = dayElement
         THEN (IF sameYinYang THEN "shishen" ELSE "shangguan")
       ELSE (IF sameYinYang THEN "piancai" ELSE "zhengcai")

\* labels: bijian 比肩, jiecai 劫财, shishen 食神, shangguan 伤官, piancai 偏财,
\* zhengcai 正财, qisha 七杀, zhengguan 正官, pianyin 偏印, zhengyin 正印,
\* unknown 未知
calculateTenGod(dayMaster, targetStem) ==
  IF dayMaster = targetStem THEN "bijian"
  ELSE
    LET dayElement == getElementFromStem(dayMaster)
        targetElement == getElementFromStem(targetStem)
        relation == getElementRelation(dayElement, targetElement)
        sameYinYang == (getStemYinYang(dayMaster) = getStemYinYang(targetStem))
    IN CASE relation = "same" -> IF sameYinYang THEN "bijian" ELSE "jiecai"
         [] relation = "generate" -> IF sameYinYang THEN "shishen" ELSE "shangguan"
         [] relation = "overcome" -> IF sameYinYang THEN "piancai" ELSE "zhengcai"
         [] relation = "beOvercome" -> IF sameYinYang THEN "qisha" ELSE "zhengguan"
         [] relation = "beGenerated" -> IF sameYinYang THEN "pianyin" ELSE "zhengyin"
         [] OTHER -> "unknown"

----------------------------------------------------------------------------
(* JavaScript numbers of the scorer.                                        *)
(*                                                                          *)
(* Scores are IEEE 754 doubles.  Every score of the scorer is within 10^-12 *)
(* of a multiple of 0.001, so a double is kept as the record                *)
(*   [m |-> thousandths, e |-> excess]  =  m / 1000 + e / (1000 * 2^54):    *)
(* 3 is [m |-> 3000, e |-> 0], and the double written 0.6 is                *)
(* [m |-> 600, e |-> -400].  The doubles of magnitude 0.25 to 64 are the    *)
(* records whose value is a multiple of the unit in the last place of their *)
(* binade, and + and * round the exact result to the nearest of them, ties  *)
(* to the even one.                                                         *)

Abs(x) == IF x < 0 THEN -x ELSE x

\* 2^j mod 1000 for j from 26 to 56, as (2^26 mod 1000) * (2^(j-26) mod 1000)
Pow2Mod1000(j) == ((2^26 % 1000) * (2^(j - 26) % 1000)) % 1000

\* the binade of x = m / 1000 + e / (1000 * 2^54): the j with
\* 2^(j-1) <= |x| < 2^j, for |x| from 0.25 up to 64; -2 stands for every
\* smaller |x|
BinadeOf(m, e) ==
  LET outward == IF m < 0 THEN e <= 0 ELSE e >= 0
      atLeast(t) == Abs(m) > t \/ (Abs(m) = t /\ outward)
  IN IF atLeast(32000) THEN 6
     ELSE IF atLeast(16000) THEN 5
     ELSE IF atLeast(8000) THEN 4
     ELSE IF atLeast(4000) THEN 3
     ELSE IF atLeast(2000) THEN 2
     ELSE IF atLeast(1000) THEN 1
     ELSE IF atLeast(500) THEN 0
     ELSE IF atLeast(250) THEN -1
     ELSE -2

\* x rounded to a multiple of T, in the units of e, given rem2 = x mod 2T:
\* to the nearest multiple, and from half way to the even one
RoundToUnit(m, e, T, rem2) ==
  LET rem == rem2 % T
      up == 2 * rem > T \/ (2 * rem = T /\ rem2 >= T)
  IN [m |-> m, e |-> IF rem = 0 THEN e ELSE IF up THEN e + (T - rem) ELSE e - rem]

\* x = m / 1000 + e / (1000 * 2^54) rounded in the binade j, where the unit
\* in the last place is 2^(j-53), that is T = 1000 * 2^(j+1) in the units of
\* e; below 0.25 the sums of doubles of this model are exact.
RoundInBinade(m, e, j) ==
  IF j = -2 \/ (e = 0 /\ m % 500 = 0) THEN [m |-> m, e |-> e]
  ELSE RoundToUnit(m, e, 1000 * 2^(j + 1),
         \* (m * 2^54 + e) mod 2T
         (2^(j + 2) * (((m % 1000) * Pow2Mod1000(52 - j)) % 1000) + e)
           % (2000 * 2^(j + 1)))

\* the double nearest to m / 1000 + e / (1000 * 2^54), ties to even
DoubleRound(m, e) == RoundInBinade(m, e, BinadeOf(m, e))

\* a decimal literal of the source, given in thousandths
DoubleOf(thousandths) == DoubleRound(thousandths, 0)

\* a + b
DoubleAdd(a, b) == DoubleRound(a.m + b.m, a.e + b.e)

\* n * a for an integer n
DoubleTimes(n, a) == DoubleRound(n * a.m, n * a.e)

\* Math.abs(a)
DoubleAbs(a) == IF a.m < 0 \/ (a.m = 0 /\ a.e < 0) THEN [m |-> -a.m, e |-> -a.e] ELSE a

\* a > t / 1000 and a >= t / 1000 for a decimal literal t that is a double
\* itself (an integer or a half)
DoubleGt(a, t) == a.m > t \/ (a.m = t /\ a.e > 0)

DoubleGe(a, t) == a.m > t \/ (a.m = t /\ a.e >= 0)

----------------------------------------------------------------------------
(* Elemental-strength scorer *)

\* supportScore = 0, then supportScore += score for each contribution in order
RECURSIVE SumScoresFrom(_, _)
SumScoresFrom(supportScore, seq) ==
  IF seq = <<>> THEN supportScore
  ELSE SumScoresFrom(DoubleAdd(supportScore, seq[1].score), Tail(seq))

SumScores(seq) == SumScoresFrom(DoubleOf(0), seq)

\* Object.values / Object.entries order of the pillars object literal
PillarPositions == <<"year", "month", "day", "hour">>

\* labels: wang 旺, xiang 相, xiu 休, qiu 囚, si 死, jue 绝, mu 墓, sheng 生,
\* yuqi 余气, ping 平 (the fallback)
seasonStrength ==
  [wood  |-> [yin |-> "wang", mao |-> "wang", chen |-> "yuqi", si |-> "si", wuB |-> "si", wei |-> "si",
              shen |-> "jue", you |-> "jue", xu |-> "mu", hai |-> "sheng", zi |-> "sheng", chou |-> "xiu"],
   fire  |-> [yin |-> "sheng", mao |-> "sheng", chen |-> "xiu", si |-> "wang", wuB |-> "wang", wei |-> "yuqi",
              shen |-> "si", you |-> "si", xu |-> "mu", hai |-> "jue", zi |-> "jue", chou |-> "si"],
   earth |-> [yin |-> "si", mao |-> "si", chen |-> "wang", si |-> "xiang", wuB |-> "xiang", wei |-> "wang",
              shen |-> "xiu", you |-> "xiu", xu |-> "wang", hai |-> "si", zi |-> "si", chou |-> "wang"],
   metal |-> [yin |-> "jue", mao |-> "jue", chen |-> "mu", si |-> "si", wuB |-> "si", wei |-> "si",
              shen |-> "wang", you |-> "wang", xu |-> "yuqi", hai |-> "sheng", zi |-> "sheng", chou |-> "xiang"],
   water |-> [yin |-> "si", mao |-> "si", chen |-> "mu", si |-> "jue", wuB |-> "jue", wei |-> "si",
              shen |-> "sheng", you |-> "sheng", xu |-> "si", hai |-> "wang", zi |-> "wang", chou |-> "yuqi"]]

getMonthStrength(element, monthBranch) ==
  IF element \in DOMAIN seasonStrength /\ monthBranch \in DOMAIN seasonStrength[element]
    THEN seasonStrength[element][monthBranch]
    ELSE "ping"

\* the score of one hidden stem by its relation to the day master's element
hiddenStemScore(relation) ==
  CASE relation = "same" -> 3
    [] relation = "beGenerated" -> 2
    [] relation = "generate" -> -1
    [] relation = "overcome" -> -2
    [] relation = "beOvercome" -> -3
    [] OTHER -> 0

\* index is 0-based: main 1.0, middle 0.6, residual 0.3
positionMultiplier(index) ==
  IF index = 0 THEN DoubleOf(1000) ELSE IF index = 1 THEN DoubleOf(600) ELSE DoubleOf(300)

\* the relation analyzeHiddenStemSupport scores a hidden stem by
hiddenStemRelation(hiddenElement, dayElement) == getElementRelation(hiddenElement, dayElement)

\* one record per iteration of the inner forEach of analyzeHiddenStemSupport;
\* score is finalScore = score * positionMultiplier
HiddenStemContributions(dayElement, pillars) ==
  LET ofPillar(position) ==
        LET pillar == pillars[position]
            hiddenStems == getBranchHiddenStems(pillar.branch)
        IN [i \in 1..Len(hiddenStems) |->
              LET hiddenStem == hiddenStems[i]
                  hiddenElement == getElementFromStem(hiddenStem)
                  relation == hiddenStemRelation(hiddenElement, dayElement)
              IN [position |-> position, index |-> i - 1, branch |-> pillar.branch,
                  hidden_stem |-> hiddenStem, relation |-> relation,
                  score |-> DoubleTimes(hiddenStemScore(relation), positionMultiplier(i - 1))]]
  IN ofPillar(PillarPositions[1]) \o ofPillar(PillarPositions[2])
       \o ofPillar(PillarPositions[3]) \o ofPillar(PillarPositions[4])

\* levels: qiang 强, zhong 中, ruo 弱, henruo 很弱
analyzeHiddenStemSupport(dayElement, pillars) ==
  LET contributions == HiddenStemContributions(dayElement, pillars)
      supportScore == SumScores(contributions)
      itemized(c) == DoubleGt(DoubleAbs(c.score), 500)
      detailOf(c) == [branch |-> c.branch, hidden_stem |-> c.hidden_stem,
                      relation |-> c.relation, score |-> c.score]
      kept == SelectSeq(contributions, itemized)
  IN [total_score |-> supportScore,
      details |-> [i \in 1..Len(kept) |-> detailOf(kept[i])],
      level |-> IF DoubleGt(supportScore, 3000) THEN "qiang"
                ELSE IF DoubleGt(supportScore, 0) THEN "zhong"
                ELSE IF DoubleGt(supportScore, -3000) THEN "ruo" ELSE "henruo"]

\* the score of one visible stem by its relation to the day master's element
stemScore(relation) ==
  CASE relation = "same" -> DoubleOf(2000)
    [] relation = "beGenerated" -> DoubleOf(1500)
    [] relation = "generate" -> DoubleOf(-500)
    [] relation = "overcome" -> DoubleOf(-1000)
    [] relation = "beOvercome" -> DoubleOf(-1500)
    [] OTHER -> DoubleOf(0)

\* the relation analyzeStemSupport scores a visible stem by
stemRelation(stemElement, dayElement) == getElementRelation(stemElement, dayElement)

\* the positions analyzeStemSupport scores: the day pillar is skipped
StemSupportPositions == SelectSeq(PillarPositions, LAMBDA position : position # "day")

\* one record per iteration of the forEach of analyzeStemSupport that is not skipped
StemContributions(dayElement, pillars) ==
  [i \in 1..Len(StemSupportPositions) |->
     LET position == StemSupportPositions[i]
         pillar == pillars[position]
         relation == stemRelation(getElementFromStem(pillar.stem), dayElement)
     IN [position |-> position, stem |-> pillar.stem, relation |-> relation,
         score |-> stemScore(relation)]]

analyzeStemSupport(dayElement, pillars) ==
  LET contributions == StemContributions(dayElement, pillars)
      supportScore == SumScores(contributions)
      itemized(c) == DoubleGt(DoubleAbs(c.score), 0)
  IN [total_score |-> supportScore,
      details |-> SelectSeq(contributions, itemized),
      level |-> IF DoubleGt(supportScore, 2000) THEN "qiang"
                ELSE IF DoubleGt(supportScore, 0) THEN "zhong"
                ELSE IF DoubleGt(supportScore, -2000) THEN "ruo" ELSE "henruo"]

\* the monthScore table without its last entry
monthScoreOf_NoResidual(monthStrength) ==
  CASE monthStrength = "wang" -> DoubleOf(4000)
    [] monthStrength = "xiang" -> DoubleOf(2000)
    [] monthStrength = "qiu" -> DoubleOf(-2000)
    [] monthStrength = "si" -> DoubleOf(-3000)
    [] monthStrength = "jue" -> DoubleOf(-4000)
    [] monthStrength = "mu" -> DoubleOf(-1000)
    [] monthStrength = "sheng" -> DoubleOf(1000)
    [] OTHER -> DoubleOf(0)

\* the monthScore table of calculateOverallStrength (a missing label gives 0)
monthScoreOf(monthStrength) ==
  CASE monthStrength = "wang" -> DoubleOf(4000)
    [] monthStrength = "xiang" -> DoubleOf(2000)
    [] monthStrength = "xiu" -> DoubleOf(0)
    [] monthStrength = "qiu" -> DoubleOf(-2000)
    [] monthStrength = "si" -> DoubleOf(-3000)
    [] monthStrength = "jue" -> DoubleOf(-4000)
    [] monthStrength = "mu" -> DoubleOf(-1000)
    [] monthStrength = "sheng" -> DoubleOf(1000)
    [] monthStrength = "yuqi" -> DoubleOf(1000)
    [] OTHER -> DoubleOf(0)

\* monthScore + hiddenSupport.total_score + stemSupport.total_score
totalScoreOf(monthScore, hiddenScore, stemSupportScore) ==
  DoubleAdd(DoubleAdd(monthScore, hiddenScore), stemSupportScore)

calculateOverallStrength(monthStrength, hiddenSupport, stemSupport) ==
  LET monthScore == monthScoreOf(monthStrength)
  IN [month_score |-> monthScore,
      hidden_score |-> hiddenSupport.total_score,
      stem_score |-> stemSupport.total_score,
      total_score |-> totalScoreOf(monthScore, hiddenSupport.total_score,
                                   stemSupport.total_score)]

\* getStrengthLevel with the bands exclusive on their lower bound
getStrengthLevel_Exclusive(overallStrength) ==
  LET score == overallStrength.total_score
  IN IF DoubleGt(score, 6000) THEN "taiwang"
     ELSE IF DoubleGt(score, 3000) THEN "pianwang"
     ELSE IF DoubleGt(score, -1000) THEN "zhonghe"
     ELSE IF DoubleGt(score, -4000) THEN "pianruo"
     ELSE "tairuo"

\* levels: taiwang 太旺, pianwang 偏旺, zhonghe 中和, pianruo 偏弱, tairuo 太弱
getStrengthLevel(overallStrength) ==
  LET score == overallStrength.total_score
  IN IF DoubleGe(score, 6000) THEN "taiwang"
     ELSE IF DoubleGe(score, 3000) THEN "pianwang"
     ELSE IF DoubleGe(score, -1000) THEN "zhonghe"
     ELSE IF DoubleGe(score, -4000) THEN "pianruo"
     ELSE "tairuo"

\* restrainMap, drainMap, consumeMap, generateMap: one-element arrays, and []
\* for an element that is not a key
\* getRestrainElements with the table of the element's own overcome cycle
getRestrainElements_Overcome(element) == <<overcomeCycle[element]>>

getRestrainElements(element) ==
  CASE element = "wood" -> <<"metal">>
    [] element = "fire" -> <<"water">>
    [] element = "earth" -> <<"wood">>
    [] element = "metal" -> <<"fire">>
    [] element = "water" -> <<"earth">>
    [] OTHER -> <<>>

getDrainElements(element) ==
  CASE element = "wood" -> <<"fire">>
    [] element = "fire" -> <<"earth">>
    [] element = "earth" -> <<"metal">>
    [] element = "metal" -> <<"water">>
    [] element = "water" -> <<"wood">>
    [] OTHER -> <<>>

\* getConsumeElements with the table of getRestrainElements
getConsumeElements_Restrain(element) == getRestrainElements(element)

getConsumeElements(element) ==
  CASE element = "wood" -> <<"earth">>
    [] element = "fire" -> <<"metal">>
    [] element = "earth" -> <<"water">>
    [] element = "metal" -> <<"wood">>
    [] element = "water" -> <<"fire">>
    [] OTHER -> <<>>

\* getGenerateElements with the table of getDrainElements
getGenerateElements_Drain(element) == getDrainElements(element)

getGenerateElements(element) ==
  CASE element = "wood" -> <<"water">>
    [] element = "fire" -> <<"wood">>
    [] element = "earth" -> <<"fire">>
    [] element = "metal" -> <<"earth">>
    [] element = "water" -> <<"metal">>
    [] OTHER -> <<>>

\* one "<elements joined by 、>（<role>）" group of a use_god / avoid_god
\* string; roles: guansha 官杀, shishang 食伤, caixing 财星, bijie 比劫,
\* yinxing 印星
GodGroup(elements, role) == [elements |-> elements, role |-> role]

\* a use_god / avoid_god string that names no element:
\* yinshizhiyi 因时制宜，随运而变; guowangguoruo 过旺过弱之五行
GodPhrase(phrase) == <<[elements |-> <<>>, role |-> phrase]>>

\* analyzeUseGod; use_god and avoid_god are the groups of the string in
\* order, analysis names the day element, the level and the advice
\* (kexiehao 克泄耗, shengfu 生扶, shunqiziran 顺其自然)
analyzeUseGod(dayElement, strengthAnalysis, pillars) ==
  LET strengthLevel == getStrengthLevel(strengthAnalysis)
  IN IF strengthLevel = "taiwang" \/ strengthLevel = "pianwang"
       THEN [use_god |-> <<GodGroup(getRestrainElements(dayElement), "guansha"),
                           GodGroup(getDrainElements(dayElement), "shishang"),
                           GodGroup(getConsumeElements(dayElement), "caixing")>>,
             avoid_god |-> <<GodGroup(<<dayElement>>, "bijie"),
                             GodGroup(getGenerateElements(dayElement), "yinxing")>>,
             analysis |-> [day_element |-> dayElement, level |-> strengthLevel,
                           advice |-> "kexiehao"],
             strength_level |-> strengthLevel]
     ELSE IF strengthLevel = "tairuo" \/ strengthLevel = "pianruo"
       THEN [use_god |-> <<GodGroup(getGenerateElements(dayElement), "yinxing"),
                           GodGroup(<<dayElement>>, "bijie")>>,
             avoid_god |-> <<GodGroup(getRestrainElements(dayElement), "guansha"),
                             GodGroup(getDrainElements(dayElement), "shishang"),
                             GodGroup(getConsumeElements(dayElement), "caixing")>>,
             analysis |-> [day_element |-> dayElement, level |-> strengthLevel,
                           advice |-> "shengfu"],
             strength_level |-> strengthLevel]
     ELSE [use_god |-> GodPhrase("yinshizhiyi"),
           avoid_god |-> GodPhrase("guowangguoruo"),
           analysis |-> [day_element |-> dayElement, level |-> "zhonghe",
                         advice |-> "shunqiziran"],
           strength_level |-> strengthLevel]

analyzeElementStrength(dayMaster, monthBranch, pillars) ==
  LET dayElement == getElementFromStem(dayMaster)
      monthStrength == getMonthStrength(dayElement, monthBranch)
      hiddenStemSupport == analyzeHiddenStemSupport(dayElement, pillars)
      stemSupport == analyzeStemSupport(dayElement, pillars)
      overallStrength == calculateOverallStrength(monthStrength, hiddenStemSupport, stemSupport)
  IN [month_strength |-> monthStrength,
      hidden_stem_support |-> hiddenStemSupport,
      stem_support |-> stemSupport,
      overall_strength |-> overallStrength,
      strength_level |-> getStrengthLevel(overallStrength),
      use_god_analysis |-> analyzeUseGod(dayElement, overallStrength, pillars)]

----------------------------------------------------------------------------
(* Chart assembly *)

\* birthHourOf with the hour of the clock for an absent birth_time
birthHourOf_Clock(birth_time) == IF birth_time = <<>> THEN now % 24 ELSE birth_time[1]

\* birth_time is <<>> when absent, <<hour>> otherwise; the minute of the time
\* only reaches the boundary resolver, whose windows begin at day granularity
birthHourOf(birth_time) == IF birth_time = <<>> THEN 12 ELSE birth_time[1]

\* the values of nayinTable in key order; the keys are the sixty stem-branch
\* pairs in cycle order from jia-zi, two consecutive pairs to a name
\* (海中金 haizhongjin, 炉中火 luzhonghuo, 大林木 dalinmu, ...)
nayinTable ==
  <<"haizhongjin", "luzhonghuo", "dalinmu", "lupangtu", "jianfengjin", "shantouhuo",
    "jianxiashui", "chengtoutu", "bailajin", "yangliumu", "quanzhongshui", "wushangtu",
    "pilihuo", "songbaimu", "changliushui", "shazhongjin", "shanxiahuo", "pingdimu",
    "bishangtu", "jinbojin", "fudenghuo", "tianheshui", "dayitu", "chaichuanjin",
    "sangzhemu", "daxishui", "shazhongtu", "tianshanghuo", "shiliumu", "dahaishui">>

\* the 0-based position of stem + branch among the keys of nayinTable, or -1
\* when the pair is not a key
nayinKeyIndex(stem, branch) ==
  LET hits == {k \in 0..59 : getStemByIndex(k % 10) = stem /\ getBranchByIndex(k % 12) = branch}
  IN IF hits = {} THEN -1 ELSE CHOOSE k \in hits : TRUE

\* nayinTable[ganzhi] || '大林木'
calculateNayin(stem, branch) ==
  IF nayinKeyIndex(stem, branch) = -1 THEN "dalinmu"
  ELSE nayinTable[(nayinKeyIndex(stem, branch) \div 2) + 1]

calculatePreciseBazi(birth_date, birth_time) ==
  LET birthYear == birth_date.year
      birthMonth == birth_date.month
      birthDay == birth_date.day
      birthHour == birthHourOf(birth_time)
      yearPillar == calculateYearPillar(birthYear, birthMonth, birthDay, birthHour)
      monthPillar == calculateMonthPillar(birthYear, birthMonth, birthDay,
                                          yearPillar.stemIndex, birthHour)
      dayPillar == calculateDayPillar(birthYear, birthMonth, birthDay)
      hourPillar == calculateHourPillar(birthHour, dayPillar.stemIndex,
                                        birthYear, birthMonth, birthDay)
  IN [year_pillar |->
        [stem |-> yearPillar.stem, branch |-> yearPillar.branch,
         element |-> getElementFromStem(yearPillar.stem),
         hidden_stems |-> getBranchHiddenStems(yearPillar.branch),
         ten_god |-> calculateTenGod(dayPillar.stem, yearPillar.stem)],
      month_pillar |->
        [stem |-> monthPillar.stem, branch |-> monthPillar.branch,
         element |-> getElementFromStem(monthPillar.stem),
         hidden_stems |-> getBranchHiddenStems(monthPillar.branch),
         ten_god |-> calculateTenGod(dayPillar.stem, monthPillar.stem),
         is_month_order |-> TRUE],
      day_pillar |->
        [stem |-> dayPillar.stem, branch |-> dayPillar.branch,
         element |-> getElementFromStem(dayPillar.stem),
         hidden_stems |-> getBranchHiddenStems(dayPillar.branch),
         ten_god |-> "dayMaster",
         is_day_master |-> TRUE],
      hour_pillar |->
        [stem |-> hourPillar.stem, branch |-> hourPillar.branch,
         element |-> getElementFromStem(hourPillar.stem),
         hidden_stems |-> getBranchHiddenStems(hourPillar.branch),
         ten_god |-> calculateTenGod(dayPillar.stem, hourPillar.stem),
         zishi_type |-> hourPillar.zishi_type,
         is_late_zishi |-> hourPillar.is_late_zishi,
         is_early_zishi |-> hourPillar.is_early_zishi],
      day_master |-> dayPillar.stem,
      day_master_element |-> getElementFromStem(dayPillar.stem),
      nayin_info |->
        [year_nayin |-> calculateNayin(yearPillar.stem, yearPillar.branch),
         month_nayin |-> calculateNayin(monthPillar.stem, monthPillar.branch),
         day_nayin |-> calculateNayin(dayPillar.stem, dayPillar.branch),
         hour_nayin |-> calculateNayin(hourPillar.stem, hourPillar.branch)],
      month_order |-> monthPillar.branch,
      complete_chart |->
        <<yearPillar.stem, yearPillar.branch, " ", monthPillar.stem, monthPillar.branch, " ",
          dayPillar.stem, dayPillar.branch, " ", hourPillar.stem, hourPillar.branch>>,
      element_strength |->
        analyzeElementStrength(dayPillar.stem, monthPillar.branch,
          [year |-> yearPillar, month |-> monthPillar,
           day |-> dayPillar, hour |-> hourPillar])]

\* the queries of a chart whose hour pillar never asks for the day after
ExternalLookups_SameDay(birth_date, birth_time) ==
  <<"isAfterSpringBeginning", "getSolarTermMonth", "getAccurateDayPillar">>

\* the collaborator queries one chart computation issues, in call order
ExternalLookups(birth_date, birth_time) ==
  <<"isAfterSpringBeginning", "getSolarTermMonth", "getAccurateDayPillar">>
    \o (IF birthHourOf(birth_time) = 23 THEN <<"getAccurateDayPillar">> ELSE <<>>)

----------------------------------------------------------------------------
(* JavaScript values of a birth_data object and the checks of                *)
(* performFullBaziAnalysis.  A string is the sequence of its characters.    *)

Undefined == [type |-> "undefined", chars |-> <<>>, value |-> 0]

StringOf(chars) == [type |-> "string", chars |-> chars, value |-> 0]

NumberOf(n) == [type |-> "number", chars |-> <<>>, value |-> n]

\* ToBoolean: undefined, the empty string and 0 are falsy
Truthy(v) ==
  CASE v.type = "undefined" -> FALSE
    [] v.type = "string" -> v.chars # <<>>
    [] v.type = "number" -> v.value # 0

DigitChars == <<"0", "1", "2", "3", "4", "5", "6", "7", "8", "9">>

IsDigit(c) == \E i \in 1..10 : DigitChars[i] = c

DigitValue(c) == (CHOOSE i \in 1..10 : DigitChars[i] = c) - 1

\* Number / parseInt of a run of decimal digits
RECURSIVE DigitsValue(_)
DigitsValue(chars) ==
  IF chars = <<>> THEN 0
  ELSE 10 * DigitsValue(SubSeq(chars, 1, Len(chars) - 1)) + DigitValue(chars[Len(chars)])

\* /^\d{4}-\d{2}-\d{2}$/.test
dateRegexTest(chars) ==
  /\ Len(chars) = 10
  /\ \A i \in {1, 2, 3, 4, 6, 7, 9, 10} : IsDigit(chars[i])
  /\ chars[5] = "-" /\ chars[8] = "-"

\* /^\d{2}:\d{2}$/.test
timeRegexTest(chars) ==
  /\ Len(chars) = 5
  /\ \A i \in {1, 2, 4, 5} : IsDigit(chars[i])
  /\ chars[3] = ":"

\* new Date("YYYY-MM-DD") of a string that passed dateRegexTest: the UTC
\* midnight of the date.  The date parser takes months 1..12 and days 1..31
\* and carries a day past the end of the month into the next month; anything
\* else is an Invalid Date.
newDate(chars) ==
  LET year == DigitsValue(SubSeq(chars, 1, 4))
      month == DigitsValue(SubSeq(chars, 6, 7))
      day == DigitsValue(SubSeq(chars, 9, 10))
  IN IF month \in 1..12 /\ day \in 1..31
       THEN IF day <= DaysInMonth(year, month)
              THEN [valid |-> TRUE, year |-> year, month |-> month, day |-> day]
              ELSE [valid |-> TRUE, year |-> year, month |-> month + 1,
                    day |-> day - DaysInMonth(year, month)]
       ELSE [valid |-> FALSE, year |-> 0, month |-> 0, day |-> 0]

\* Date.prototype.getTime of a date of newDate, in hours since 1900-01-01T00:00Z
getTime(date) == 24 * DaysSince1900(date.year, date.month, date.day)

\* birth_time.split(':').map(Number)
splitTime(chars) ==
  [hours |-> DigitsValue(SubSeq(chars, 1, 2)), minutes |-> DigitsValue(SubSeq(chars, 4, 5))]

\* 'male', 'female', '男', '女', '男性', '女性' (nan 男, nv 女, xing 性)
validGenders ==
  {<<"m", "a", "l", "e">>, <<"f", "e", "m", "a", "l", "e">>, <<"nan">>, <<"nv">>,
   <<"nan", "xing">>, <<"nv", "xing">>}

MaxNameLength == 50

InputError(message) == [thrown |-> "Error", message |-> message]

NoError == [thrown |-> "none", message |-> ""]

\* if (birth_time && typeof birth_time === 'string') { ... }
birthTimeError(birth_time) ==
  IF Truthy(birth_time) /\ birth_time.type = "string"
    THEN IF ~timeRegexTest(birth_time.chars) THEN InputError("timeFormat")
         ELSE IF splitTime(birth_time.chars).hours < 0
                 \/ splitTime(birth_time.chars).hours > 23
                 \/ splitTime(birth_time.chars).minutes < 0
                 \/ splitTime(birth_time.chars).minutes > 59
           THEN InputError("timeInvalid")
         ELSE NoError
    ELSE NoError

\* the checks on birth_date, in order; currentTime is new Date() in hours
\* since 1900-01-01T00:00Z, and minDate is hour 0
birthDateError(birth_date, currentTime) ==
  IF ~Truthy(birth_date) \/ birth_date.type # "string" THEN InputError("dateEmpty")
  ELSE IF ~dateRegexTest(birth_date.chars) THEN InputError("dateFormat")
  ELSE IF ~newDate(birth_date.chars).valid THEN InputError("dateInvalid")
  ELSE IF getTime(newDate(birth_date.chars)) < 0
          \/ getTime(newDate(birth_date.chars)) > currentTime
    THEN InputError("dateRange")
  ELSE NoError

genderError(gender) ==
  IF ~Truthy(gender) \/ gender.type # "string" THEN InputError("genderEmpty")
  ELSE IF gender.chars \notin validGenders THEN InputError("genderInvalid")
  ELSE NoError

nameError(name) ==
  IF Truthy(name) /\ (name.type # "string" \/ Len(name.chars) > MaxNameLength)
    THEN InputError("nameLength")
  ELSE NoError

\* the first check of performFullBaziAnalysis that throws, or NoError
FirstError(errors) ==
  IF \E i \in 1..Len(errors) : errors[i] # NoError
    THEN errors[CHOOSE i \in 1..Len(errors) :
                  errors[i] # NoError /\ \A k \in 1..(i - 1) : errors[k] = NoError]
    ELSE NoError

validationError(birth_data, currentTime) ==
  FirstError(<<birthDateError(birth_data.birth_date, currentTime),
               birthTimeError(birth_data.birth_time),
               genderError(birth_data.gender),
               nameError(birth_data.name)>>)

----------------------------------------------------------------------------
(* The state machine: one call of an entry point *)

NoResult == [none |-> TRUE]

BirthYears == (BaseYear - YearsBefore)..(BaseYear + YearsAfter)

\* the calendar dates of the birth years
BirthDates ==
  UNION {{[year |-> y, month |-> m, day |-> d] : d \in 1..DaysInMonth(y, m)} :
           y \in BirthYears, m \in 1..12}

BirthTimes == {<<>>} \cup {<<h>> : h \in 0..23}

\* total scores around every tenth of a unit: the doubles of k/10 - 0.001,
\* k/10 and k/10 + 0.001, and for each a double 2^-47 below and above it
\* (magnitudes below 0.25 are left out: see DoubleRound)
TotalScores ==
  {DoubleRound(100 * k + d, u * 1000 * 2^7) :
     k \in {x \in (-10 * MaxScoreUnits)..(10 * MaxScoreUnits) : Abs(x) >= 3},
     d \in {-1, 0, 1}, u \in {-1, 0, 1}}

InitBazi ==
  /\ op = "bazi"
  /\ input \in [birth_date : BirthDates, birth_time : BirthTimes]

InitTenGod ==
  /\ op = "tenGod"
  /\ input \in [dayMaster : {Stems[i] : i \in 1..10},
                targetStem : {Stems[i] : i \in 1..10}]

InitLevel ==
  /\ op = "level"
  /\ input \in [total_score : TotalScores]

\* the pillars objects of two charts, for calls that take one
PillarSamples ==
  {[year |-> calculateYearPillar(BaseYear, m, 1, 12),
    month |-> calculateMonthPillar(BaseYear, m, 1,
                calculateYearPillar(BaseYear, m, 1, 12).stemIndex, 12),
    day |-> calculateDayPillar(BaseYear, m, 1),
    hour |-> calculateHourPillar(12, calculateDayPillar(BaseYear, m, 1).stemIndex,
                                 BaseYear, m, 1)] : m \in {1, 7}}

InitUseGod ==
  /\ op = "useGod"
  /\ input \in [dayElement : Elements, strengthAnalysis : [total_score : TotalScores],
                pillars : PillarSamples]

\* both collaborators answer
Answering == [resolver |-> "answers", lookup |-> "answers"]

\* the clock of the first call: 1985-12-30T20:00Z
NowStart == 24 * DaysSince1900(BaseYear + 1, 12, 30) + 20

\* no performFullBaziAnalysis call is made
ServiceIdle ==
  /\ collaborators = Answering
  /\ now = NowStart
  /\ cache = {}
  /\ calls = <<>>

\* no aiRateLimit invocation is made: the defaults of the configuration, an
\* empty table
NoInvocation == [none |-> TRUE]

DefaultDailyLimit == 30

LimiterIdle ==
  /\ config = [enabled |-> TRUE, limit |-> DefaultDailyLimit]
  /\ usage = {}
  /\ passed = [key \in {} |-> 0]
  /\ last = NoInvocation

Init ==
  /\ ServiceIdle
  /\ LimiterIdle
  /\ (InitBazi \/ InitTenGod \/ InitLevel \/ InitUseGod)
  /\ result = NoResult
  /\ lookups = <<>>
  /\ pc = "call"

CalculatePreciseBazi ==
  /\ pc = "call"
  /\ op = "bazi"
  /\ result' = calculatePreciseBazi(input.birth_date, input.birth_time)
  /\ lookups' = ExternalLookups(input.birth_date, input.birth_time)
  /\ pc' = "done"
  /\ UNCHANGED <<op, input, serviceVars, limiterVars>>

CalculateTenGod ==
  /\ pc = "call"
  /\ op = "tenGod"
  /\ result' = [ten_god |-> calculateTenGod(input.dayMaster, input.targetStem)]
  /\ pc' = "done"
  /\ UNCHANGED <<op, input, lookups, serviceVars, limiterVars>>

GetStrengthLevel ==
  /\ pc = "call"
  /\ op = "level"
  /\ result' = [strength_level |-> getStrengthLevel(input)]
  /\ pc' = "done"
  /\ UNCHANGED <<op, input, lookups, serviceVars, limiterVars>>

AnalyzeUseGod ==
  /\ pc = "call"
  /\ op = "useGod"
  /\ result' = analyzeUseGod(input.dayElement, input.strengthAnalysis, input.pillars)
  /\ pc' = "done"
  /\ UNCHANGED <<op, input, lookups, serviceVars, limiterVars>>

Next == CalculatePreciseBazi \/ CalculateTenGod \/ GetStrengthLevel \/ AnalyzeUseGod

Spec == Init /\ [][Next]_vars

----------------------------------------------------------------------------
(* The state machine of performFullBaziAnalysis: calls on one analyzer       *)
(* instance.  A call runs from its entry to the await of Promise.all in one  *)
(* step and from there to its return in a second step; other calls and the  *)
(* clock may move in between.  The narrative sections of the result         *)
(* (wuxing_analysis, geju_analysis, dayun_analysis, life_guidance,           *)
(* modern_applications) are left out; birth_place is absent in every call.  *)

\* calls made in one behaviour
MaxCalls == 2

\* times the clock advances in one behaviour
MaxTicks == 1

\* hours between two readings of the clock
ClockStep == 13

\* "YYYY-MM-DD" and "HH:MM" as a client writes them
TwoDigits(n) == <<DigitChars[(n \div 10) + 1], DigitChars[(n % 10) + 1]>>

DateText(y, m, d) ==
  StringOf(TwoDigits(y \div 100) \o TwoDigits(y % 100) \o <<"-">> \o TwoDigits(m)
             \o <<"-">> \o TwoDigits(d))

TimeText(h, m) == StringOf(TwoDigits(h) \o <<":">> \o TwoDigits(m))

\* 1984-02-04, and 1985-12-31, which is in the future at NowStart
GoodDates == {DateText(BaseYear, 2, 4), DateText(BaseYear + 1, 12, 31)}

\* absent, and 23:30
GoodTimes == {Undefined, TimeText(23, 30)}

\* gender and name: male 'Li', 女 without a name, male without a name
GoodPersons ==
  {[gender |-> StringOf(<<"m", "a", "l", "e">>), name |-> StringOf(<<"L", "i">>)],
   [gender |-> StringOf(<<"nv">>), name |-> Undefined],
   [gender |-> StringOf(<<"m", "a", "l", "e">>), name |-> Undefined]}

\* absent, a number, 1984/02/04, 1984-13-01, 1899-12-31
BadDates ==
  {Undefined, NumberOf(19840204),
   StringOf(<<"1", "9", "8", "4", "/", "0", "2", "/", "0", "4">>),
   DateText(BaseYear, 13, 1), DateText(1899, 12, 31)}

\* 24:00, 12:60, 9:30, and the number 930
BadTimes == {TimeText(24, 0), TimeText(12, 60), StringOf(<<"9", ":", "3", "0">>), NumberOf(930)}

BirthData(date, time, person) ==
  [birth_date |-> date, birth_time |-> time, gender |-> person.gender, name |-> person.name]

SomePerson == CHOOSE person \in GoodPersons : person.name = Undefined /\ person.gender.chars = <<"nv">>

\* the other accepted spellings of the gender: female, 男, 男性, 女性
OtherGenders ==
  {StringOf(<<"f", "e", "m", "a", "l", "e">>), StringOf(<<"nan">>),
   StringOf(<<"nan", "xing">>), StringOf(<<"nv", "xing">>)}

\* the birth_data objects of the calls: every combination of the good values,
\* the other spellings of the gender, a named person without a gender,
\* 1984-02-30 and an empty birth_time, and each bad value among good ones
BirthDataInputs ==
  {BirthData(d, t, person) : d \in GoodDates, t \in GoodTimes, person \in GoodPersons}
    \cup {BirthData(DateText(BaseYear, 2, 4), Undefined, [gender |-> g, name |-> Undefined]) :
            g \in OtherGenders}
    \cup {BirthData(DateText(BaseYear, 2, 4), Undefined,
                    [gender |-> Undefined, name |-> StringOf(<<"L", "i">>)])}
    \cup {BirthData(DateText(BaseYear, 2, 30), Undefined, SomePerson),
          BirthData(DateText(BaseYear, 2, 4), StringOf(<<>>), SomePerson)}
    \cup {BirthData(d, Undefined, SomePerson) : d \in BadDates}
    \cup {BirthData(DateText(BaseYear, 2, 4), t, SomePerson) : t \in BadTimes}
    \cup {BirthData(DateText(BaseYear, 2, 4), Undefined,
                    [gender |-> StringOf(<<"x">>), name |-> Undefined]),
          BirthData(DateText(BaseYear, 2, 4), Undefined,
                    [gender |-> StringOf(<<"nv">>),
                     name |-> StringOf([i \in 1..(MaxNameLength + 1) |-> "a"])])}

\* the resolver answers, answers an unknown branch, or answers nothing; the
\* lookup answers, or answers nothing
CollaboratorModes ==
  {Answering, [resolver |-> "unknown", lookup |-> "answers"],
   [resolver |-> "none", lookup |-> "answers"], [resolver |-> "answers", lookup |-> "none"]}

\* AnalysisCache.get(type, data): the stored value of the entry of the data's
\* fingerprint, or null
cacheGet(type, data) ==
  IF \E entry \in cache : entry.type = type /\ entry.key = data
    THEN (CHOOSE entry \in cache : entry.type = type /\ entry.key = data).value
    ELSE [null |-> TRUE]

\* the year, month and day that getFullYear, getMonth() + 1 and getDate read
\* from new Date(birth_date), in a time zone at or east of Greenwich
birthDateOf(birth_date) ==
  [year |-> newDate(birth_date.chars).year, month |-> newDate(birth_date.chars).month,
   day |-> newDate(birth_date.chars).day]

\* birth_time as calculatePreciseBazi reads its hour:
\* birth_time ? parseInt(birth_time.split(':')[0]) : 12
birthTimeOf(birth_time) ==
  IF Truthy(birth_time) THEN <<splitTime(birth_time.chars).hours>> ELSE <<>>

TypeError == [thrown |-> "TypeError", message |-> ""]

\* what stops calculatePreciseBazi before it returns: split of a birth_time
\* that is no string, monthBranch of no resolver answer, stemIndex of no
\* lookup answer
chartError(birth_data) ==
  IF Truthy(birth_data.birth_time) /\ birth_data.birth_time.type # "string" THEN TypeError
  ELSE IF collaborators.resolver = "none" \/ collaborators.lookup = "none" THEN TypeError
  ELSE NoError

\* the record of a call: what it was given, the clock at its entry, the
\* earlier calls that had returned by then, how far it got and what came out
CallRecord(birth_data, stage, cacheConsulted, pillarsComputed, chart, outcome) ==
  [birth_data |-> birth_data, entered_at |-> now,
   seen_returned |-> {i \in 1..Len(calls) : calls[i].stage = "returned"},
   stage |-> stage, cacheConsulted |-> cacheConsulted,
   pillarsComputed |-> pillarsComputed, chart |-> chart, outcome |-> outcome]

\* performFullBaziAnalysis from its entry to the await: the checks, the cache
\* lookup, calculatePreciseBazi
enterCall(birth_data) ==
  IF validationError(birth_data, now) # NoError
    THEN CallRecord(birth_data, "thrown", FALSE, FALSE, NoResult,
                    validationError(birth_data, now))
  ELSE IF cacheGet("bazi", birth_data) # [null |-> TRUE]
    THEN CallRecord(birth_data, "returned", TRUE, FALSE, NoResult,
                    cacheGet("bazi", birth_data))
  ELSE IF chartError(birth_data) # NoError
    THEN CallRecord(birth_data, "thrown", TRUE,
                    ~(Truthy(birth_data.birth_time) /\ birth_data.birth_time.type # "string"),
                    NoResult, chartError(birth_data))
  ELSE CallRecord(birth_data, "awaiting", TRUE, TRUE,
                  calculatePreciseBazi(birthDateOf(birth_data.birth_date),
                                       birthTimeOf(birth_data.birth_time)),
                  NoResult)

\* gender === 'male' || gender === '男' ? '男性' : '女性'
genderLabel(gender) ==
  IF gender.chars = <<"m", "a", "l", "e">> \/ gender.chars = <<"nan">>
    THEN <<"nan", "xing">> ELSE <<"nv", "xing">>

\* const isMale = gender === 'male' || gender === '男'
isMale(gender) == gender.chars = <<"m", "a", "l", "e">> \/ gender.chars = <<"nan">>

\* isForward of calculateStartLuckAge and calculateDayunSequence: a male of a
\* yang year and a female of a yin year go forward
isForward(baziChart, gender) ==
  (isMale(gender) /\ getStemIndex(baziChart.year_pillar.stem) % 2 = 0)
    \/ (~isMale(gender) /\ getStemIndex(baziChart.year_pillar.stem) % 2 # 0)

\* calculateDayunSequence: the stem and branch of the eight luck periods,
\* counted from the month pillar; BaseData.getBranchIndex is taken to answer
\* -1 for a name that is no branch
calculateDayunSequence(baziChart, gender) ==
  [k \in 1..8 |->
     IF isForward(baziChart, gender)
       THEN [stem |-> getStemByIndex(
                        JsRem(getStemIndex(baziChart.month_pillar.stem) + (k - 1) + 1, 10)),
             branch |-> getBranchByIndex(
                          JsRem(branchNamesIndexOf(baziChart.month_pillar.branch) + (k - 1) + 1,
                                12))]
       ELSE [stem |-> getStemByIndex(
                        JsRem(getStemIndex(baziChart.month_pillar.stem) - (k - 1) - 1 + 10, 10)),
             branch |-> getBranchByIndex(
                          JsRem(branchNamesIndexOf(baziChart.month_pillar.branch) - (k - 1) - 1
                                  + 12, 12))]]

\* the object performFullBaziAnalysis returns; nothing is stored in the cache
\* (the statements after the return are not reached)
analysisResult(call) ==
  [analysis_type |-> "bazi",
   analysis_date |-> now,
   basic_info |->
     [personal_data |->
        [name |-> IF Truthy(call.birth_data.name) THEN call.birth_data.name.chars
                  ELSE <<"nin">>,
         birth_date |-> call.birth_data.birth_date.chars,
         birth_time |-> IF Truthy(call.birth_data.birth_time)
                          THEN call.birth_data.birth_time.chars
                          ELSE <<"1", "2", ":", "0", "0">>,
         gender |-> genderLabel(call.birth_data.gender)],
      bazi_chart |-> call.chart],
   dayun_analysis |->
     [dayun_sequence |-> calculateDayunSequence(call.chart, call.birth_data.gender)]]

InitService ==
  /\ op = "service"
  /\ input = <<>>
  /\ result = NoResult
  /\ lookups = <<>>
  /\ pc = "idle"
  /\ collaborators \in CollaboratorModes
  /\ now = NowStart
  /\ cache = {}
  /\ calls = <<>>
  /\ LimiterIdle

PerformFullBaziAnalysis ==
  /\ op = "service"
  /\ Len(calls) < MaxCalls
  /\ \E birth_data \in BirthDataInputs : calls' = Append(calls, enterCall(birth_data))
  /\ UNCHANGED <<op, input, result, lookups, pc, collaborators, now, cache, limiterVars>>

ReturnAnalysis ==
  /\ op = "service"
  /\ \E i \in 1..Len(calls) :
       /\ calls[i].stage = "awaiting"
       /\ calls' = [calls EXCEPT ![i].stage = "returned",
                                 ![i].outcome = analysisResult(calls[i])]
  /\ UNCHANGED <<op, input, result, lookups, pc, collaborators, now, cache, limiterVars>>

Tick ==
  /\ op \in {"service", "limiter"}
  /\ now < NowStart + MaxTicks * ClockStep
  /\ now' = now + ClockStep
  /\ UNCHANGED <<op, input, result, lookups, pc, collaborators, cache, calls, limiterVars>>

NextService == PerformFullBaziAnalysis \/ ReturnAnalysis \/ Tick

SpecService == InitService /\ [][NextService]_vars

----------------------------------------------------------------------------
(* The state machine of the aiRateLimit middleware (src/unnamed/part_000).   *)
(* An invocation has no await before its next() or its 429 response, so it   *)
(* is one step.                                                             *)

\* process.env.AI_DAILY_LIMIT is unset, empty, or a number 0..MaxDailyLimit in
\* two decimal digits
MaxDailyLimit == 2

\* aiRateLimit invocations in one behaviour
MaxInvocations == 4

\* the addresses requests come from
ClientIps == {"ipA", "ipB"}

\* new Date().toISOString().split('T')[0]: the UTC date of the clock, kept as
\* the number of the day since 1900-01-01
todayOf(clock) == clock \div 24

\* the dates the clock passes through
RequestDates == {todayOf(NowStart + k * ClockStep) : k \in 0..MaxTicks}

DailyLimitSettings ==
  {Undefined, StringOf(<<>>)} \cup {StringOf(TwoDigits(n)) : n \in 0..MaxDailyLimit}

EnabledSettings ==
  {Undefined, StringOf(<<"t", "r", "u", "e">>), StringOf(<<"f", "a", "l", "s", "e">>)}

\* process.env.AI_DAILY_LIMIT || 30, as the number the >= and the subtraction
\* convert it to
dailyLimitOf(setting) ==
  IF Truthy(setting) THEN DigitsValue(setting.chars) ELSE DefaultDailyLimit

\* process.env.AI_RATE_LIMIT_ENABLED !== 'false'
enabledOf(setting) == setting # StringOf(<<"f", "a", "l", "s", "e">>)

\* a request: the x-forwarded-for list, x-real-ip, the socket address
\* ("none" when absent), req.user?.id ("null" when absent) and req.path
Requests ==
  {[forwarded |-> <<"ipA", "ipB">>, realIp |-> "none", remoteAddress |-> "ipB",
    userId |-> "null", path |-> "/ai"],
   [forwarded |-> <<>>, realIp |-> "ipA", remoteAddress |-> "ipB",
    userId |-> "user7", path |-> "/ai"],
   [forwarded |-> <<>>, realIp |-> "none", remoteAddress |-> "ipB",
    userId |-> "null", path |-> "/ai"]}

\* forwarded.split(',')[0].trim(), else x-real-ip, else the socket address
getClientIp(req) ==
  IF req.forwarded # <<>> THEN req.forwarded[1]
  ELSE IF req.realIp # "none" THEN req.realIp
  ELSE req.remoteAddress

NoRow == [undefined |-> TRUE]

\* the SELECT with the request_date left out of its WHERE
usageRow_AnyDate(rows, clientIp, today) ==
  IF \E row \in rows : row.ip_address = clientIp
    THEN CHOOSE row \in rows : row.ip_address = clientIp
    ELSE NoRow

\* SELECT request_count ... WHERE ip_address = ? AND request_date = ?
\* (.get answers undefined when there is no row)
usageRow(rows, clientIp, today) ==
  IF \E row \in rows : row.ip_address = clientIp /\ row.request_date = today
    THEN CHOOSE row \in rows : row.ip_address = clientIp /\ row.request_date = today
    ELSE NoRow

\* the limit test with > in place of >=
limitReached_Strict(row) == row # NoRow /\ row.request_count > config.limit

\* usage && usage.request_count >= AI_DAILY_LIMIT
limitReached(row) == row # NoRow /\ row.request_count >= config.limit

\* the INSERT of a row that does not count the request it records
insertRow_Zero(req, clientIp, today) ==
  [ip_address |-> clientIp, request_date |-> today, request_count |-> 0,
   user_id |-> req.userId, endpoint |-> req.path]

\* INSERT INTO ai_api_usage (...) VALUES (?, ?, ?, ?, 1)
insertRow(req, clientIp, today) ==
  [ip_address |-> clientIp, request_date |-> today, request_count |-> 1,
   user_id |-> req.userId, endpoint |-> req.path]

\* UPDATE ... SET request_count = request_count + 1,
\* user_id = COALESCE(?, user_id), endpoint = ?
updateRow(row, req) ==
  [row EXCEPT !.request_count = row.request_count + 1,
              !.user_id = IF req.userId # "null" THEN req.userId ELSE row.user_id,
              !.endpoint = req.path]

\* the table after the UPDATE of the row, or after the INSERT when there is none
recordRequest(rows, row, req, clientIp, today) ==
  IF row # NoRow
    THEN (rows \ {row}) \cup {updateRow(row, req)}
    ELSE rows \cup {insertRow(req, clientIp, today)}

invocations == IF last = NoInvocation THEN 0 ELSE last.seq

\* the latest invocation: what it saw and how it answered; selected: the
\* SELECT was issued
Invocation(req, selected, dbError, status, nextCalled) ==
  [seq |-> invocations + 1, req |-> req, clientIp |-> getClientIp(req),
   today |-> todayOf(now), selected |-> selected, dbError |-> dbError, before |-> usage,
   status |-> status, nextCalled |-> nextCalled]

\* a catch block that refuses the request
caught_Refuse(req) == Invocation(req, TRUE, TRUE, 429, FALSE)

\* catch (error) { console.error(...); next(); }
caught(req) == Invocation(req, TRUE, TRUE, 200, TRUE)

\* next() is called after the table is written / the 429 is sent
countNext(clientIp, today) ==
  [passed EXCEPT ![<<clientIp, today>>].next = passed[<<clientIp, today>>].next + 1]

countRefused(clientIp, today) ==
  [passed EXCEPT ![<<clientIp, today>>].refused = passed[<<clientIp, today>>].refused + 1]

\* next() is called from the catch block
countFailed(clientIp, today) ==
  [passed EXCEPT ![<<clientIp, today>>].next = passed[<<clientIp, today>>].next + 1,
                 ![<<clientIp, today>>].failed = passed[<<clientIp, today>>].failed + 1]

InitLimiter ==
  /\ op = "limiter"
  /\ input = <<>>
  /\ result = NoResult
  /\ lookups = <<>>
  /\ pc = "idle"
  /\ ServiceIdle
  /\ \E enabled \in EnabledSettings, limit \in DailyLimitSettings :
       config = [enabled |-> enabledOf(enabled), limit |-> dailyLimitOf(limit)]
  /\ usage = {}
  /\ passed = [key \in ClientIps \X RequestDates |-> [next |-> 0, refused |-> 0, failed |-> 0]]
  /\ last = NoInvocation

\* aiRateLimit(req, res, next); dbError: the database statement that throws,
\* the SELECT or the UPDATE/INSERT, if one does; a statement that throws
\* leaves the table as it was
AiRateLimit ==
  /\ op = "limiter"
  /\ invocations < MaxInvocations
  /\ \E req \in Requests, dbError \in {"none", "select", "write"} :
       IF ~config.enabled
         THEN /\ dbError = "none"
              /\ usage' = usage
              /\ passed' = countNext(getClientIp(req), todayOf(now))
              /\ last' = Invocation(req, FALSE, FALSE, 200, TRUE)
       ELSE IF dbError = "select"
         THEN /\ usage' = usage
              /\ passed' = countFailed(getClientIp(req), todayOf(now))
              /\ last' = caught(req)
       ELSE IF limitReached(usageRow(usage, getClientIp(req), todayOf(now)))
         THEN /\ dbError = "none"
              /\ usage' = usage
              /\ passed' = countRefused(getClientIp(req), todayOf(now))
              /\ last' = Invocation(req, TRUE, FALSE, 429, FALSE)
       ELSE IF dbError = "write"
         THEN /\ usage' = usage
              /\ passed' = countFailed(getClientIp(req), todayOf(now))
              /\ last' = caught(req)
       ELSE /\ usage' = recordRequest(usage, usageRow(usage, getClientIp(req), todayOf(now)),
                                      req, getClientIp(req), todayOf(now))
            /\ passed' = countNext(getClientIp(req), todayOf(now))
            /\ last' = Invocation(req, TRUE, FALSE, 200, TRUE)
  /\ UNCHANGED <<op, input, result, lookups, pc, serviceVars, config>>

NextLimiter == AiRateLimit \/ Tick

SpecLimiter == InitLimiter /\ [][NextLimiter]_vars

----------------------------------------------------------------------------
(* The hexagram service: YijingAnalyzer of yijingAnalyzer.cjs.               *)
(* A binary string is the sequence of its characters; trigram names are      *)
(* written in pinyin.                                                        *)

Null == [null |-> TRUE]

\* an array value; its elements are kept in the field the characters of a
\* string are kept in
ArrayOf(elements) == [type |-> "array", chars |-> elements, value |-> 0]

Hexagram(number, binary, upperTrigram, lowerTrigram, lineTypes) ==
  [number |-> number, binary |-> binary, upperTrigram |-> upperTrigram,
   lowerTrigram |-> lowerTrigram, lines |-> lineTypes]

\* this.ALL_HEXAGRAMS: number, binary, upperTrigram, lowerTrigram and the type
\* of lines[0..5] of each entry, in the order of the keys
ALL_HEXAGRAMS ==
  <<Hexagram(1, <<"1", "1", "1", "1", "1", "1">>, "qian", "qian",
           <<"yang", "yang", "yang", "yang", "yang", "yang">>),
    Hexagram(2, <<"0", "0", "0", "0", "0", "0">>, "kun", "kun",
           <<"yin", "yin", "yin", "yin", "yin", "yin">>),
    Hexagram(3, <<"0", "1", "0", "0", "0", "1">>, "kan", "zhen",
           <<"yang", "yin", "yin", "yin", "yang", "yin">>),
    Hexagram(4, <<"1", "0", "0", "0", "1", "0">>, "gen", "kan",
           <<"yin", "yang", "yin", "yin", "yin", "yang">>),
    Hexagram(5, <<"1", "1", "1", "0", "1", "0">>, "kan", "qian",
           <<"yang", "yang", "yang", "yin", "yang", "yin">>),
    Hexagram(6, <<"0", "1", "0", "1", "1", "1">>, "qian", "kan",
           <<"yin", "yang", "yin", "yang", "yang", "yang">>),
    Hexagram(7, <<"0", "0", "0", "0", "1", "0">>, "kun", "kan",
           <<"yin", "yang", "yin", "yin", "yin", "yin">>),
    Hexagram(8, <<"0", "1", "0", "0", "0", "0">>, "kan", "kun",
           <<"yin", "yin", "yin", "yin", "yang", "yin">>),
    Hexagram(9, <<"1", "1", "0", "1", "1", "1">>, "xun", "qian",
           <<"yang", "yang", "yang", "yin", "yang", "yang">>),
    Hexagram(10, <<"1", "1", "1", "0", "1", "1">>, "qian", "dui",
           <<"yang", "yang", "yin", "yang", "yang", "yang">>),
    Hexagram(11, <<"0", "0", "0", "1", "1", "1">>, "kun", "qian",
           <<"yang", "yang", "yang", "yin", "yin", "yin">>),
    Hexagram(12, <<"1", "1", "1", "0", "0", "0">>, "qian", "kun",
           <<"yin", "yin", "yin", "yang", "yang", "yang">>),
    Hexagram(13, <<"1", "0", "1", "1", "1", "1">>, "qian", "li",
           <<"yang", "yin", "yang", "yang", "yang", "yang">>),
    Hexagram(14, <<"1", "1", "1", "1", "0", "1">>, "li", "qian",
           <<"yang", "yang", "yang", "yang", "yin", "yang">>),
    Hexagram(15, <<"0", "0", "1", "0", "0", "0">>, "kun", "gen",
           <<"yin", "yin", "yang", "yin", "yin", "yin">>),
    Hexagram(16, <<"0", "0", "0", "1", "0", "0">>, "zhen", "kun",
           <<"yin", "yin", "yin", "yang", "yin", "yin">>),
    Hexagram(17, <<"1", "0", "0", "1", "1", "0">>, "dui", "zhen",
           <<"yang", "yin", "yin", "yang", "yang", "yin">>),
    Hexagram(18, <<"0", "1", "1", "0", "0", "1">>, "gen", "xun",
           <<"yin", "yang", "yin", "yin", "yin", "yang">>),
    Hexagram(19, <<"1", "1", "0", "0", "0", "0">>, "kun", "dui",
           <<"yin", "yin", "yin", "yin", "yang", "yin">>),
    Hexagram(20, <<"0", "0", "0", "0", "1", "1">>, "xun", "kun",
           <<"yin", "yin", "yin", "yin", "yang", "yang">>),
    Hexagram(21, <<"1", "0", "0", "1", "0", "1">>, "li", "zhen",
           <<"yin", "yin", "yin", "yang", "yin", "yang">>),
    Hexagram(22, <<"1", "0", "1", "0", "0", "1">>, "gen", "li",
           <<"yang", "yin", "yang", "yin", "yin", "yang">>),
    Hexagram(23, <<"0", "0", "0", "0", "0", "1">>, "gen", "kun",
           <<"yin", "yin", "yin", "yin", "yin", "yang">>),
    Hexagram(24, <<"1", "0", "0", "0", "0", "0">>, "kun", "zhen",
           <<"yin", "yin", "yin", "yin", "yin", "yin">>),
    Hexagram(25, <<"1", "0", "0", "1", "1", "1">>, "qian", "zhen",
           <<"yang", "yin", "yin", "yang", "yang", "yin">>),
    Hexagram(26, <<"1", "1", "1", "0", "0", "1">>, "gen", "qian",
           <<"yang", "yang", "yang", "yin", "yin", "yang">>),
    Hexagram(27, <<"1", "0", "0", "0", "0", "1">>, "gen", "zhen",
           <<"yang", "yin", "yin", "yin", "yin", "yang">>),
    Hexagram(28, <<"0", "1", "1", "1", "1", "0">>, "dui", "xun",
           <<"yin", "yang", "yang", "yang", "yin", "yin">>),
    Hexagram(29, <<"0", "1", "0", "0", "1", "0">>, "kan", "kan",
           <<"yin", "yang", "yin", "yin", "yang", "yin">>),
    Hexagram(30, <<"1", "0", "1", "1", "0", "1">>, "li", "li",
           <<"yang", "yin", "yang", "yang", "yin", "yang">>),
    Hexagram(31, <<"1", "1", "0", "1", "0", "0">>, "dui", "gen",
           <<"yin", "yin", "yang", "yang", "yin", "yin">>),
    Hexagram(32, <<"0", "0", "1", "1", "1", "0">>, "zhen", "xun",
           <<"yin", "yang", "yang", "yin", "yin", "yin">>),
    Hexagram(33, <<"1", "1", "1", "1", "0", "0">>, "qian", "gen",
           <<"yin", "yin", "yang", "yang", "yang", "yang">>),
    Hexagram(34, <<"1", "1", "1", "0", "0", "0">>, "zhen", "qian",
           <<"yang", "yang", "yang", "yang", "yin", "yin">>),
    Hexagram(35, <<"1", "0", "1", "0", "0", "0">>, "li", "kun",
           <<"yin", "yin", "yang", "yang", "yin", "yang">>),
    Hexagram(36, <<"0", "1", "0", "0", "0", "1">>, "kun", "li",
           <<"yin", "yin", "yang", "yin", "yin", "yin">>),
    Hexagram(37, <<"1", "1", "0", "1", "0", "1">>, "xun", "li",
           <<"yang", "yin", "yang", "yin", "yang", "yang">>),
    Hexagram(38, <<"0", "1", "0", "1", "1", "0">>, "li", "dui",
           <<"yang", "yin", "yin", "yang", "yin", "yang">>),
    Hexagram(39, <<"0", "0", "1", "0", "1", "0">>, "kan", "gen",
           <<"yin", "yang", "yin", "yin", "yang", "yin">>),
    Hexagram(40, <<"0", "1", "0", "1", "0", "0">>, "zhen", "kan",
           <<"yin", "yang", "yin", "yang", "yin", "yang">>),
    Hexagram(41, <<"1", "1", "0", "0", "0", "1">>, "gen", "dui",
           <<"yang", "yang", "yin", "yin", "yin", "yang">>),
    Hexagram(42, <<"1", "0", "0", "0", "1", "1">>, "xun", "zhen",
           <<"yang", "yin", "yin", "yang", "yang", "yin">>),
    Hexagram(43, <<"1", "1", "1", "1", "1", "0">>, "dui", "qian",
           <<"yang", "yang", "yang", "yang", "yang", "yin">>),
    Hexagram(44, <<"0", "1", "1", "1", "1", "1">>, "qian", "xun",
           <<"yin", "yang", "yang", "yang", "yang", "yang">>),
    Hexagram(45, <<"0", "0", "0", "1", "1", "0">>, "dui", "kun",
           <<"yin", "yin", "yin", "yang", "yang", "yin">>),
    Hexagram(46, <<"0", "1", "1", "0", "0", "0">>, "kun", "xun",
           <<"yin", "yang", "yang", "yin", "yang", "yin">>),
    Hexagram(47, <<"1", "1", "0", "0", "1", "0">>, "dui", "kan",
           <<"yin", "yang", "yin", "yang", "yang", "yin">>),
    Hexagram(48, <<"0", "0", "1", "0", "1", "1">>, "kan", "xun",
           <<"yin", "yang", "yang", "yin", "yang", "yin">>),
    Hexagram(49, <<"1", "0", "1", "1", "1", "0">>, "dui", "li",
           <<"yang", "yin", "yang", "yang", "yang", "yin">>),
    Hexagram(50, <<"0", "1", "1", "1", "0", "1">>, "li", "xun",
           <<"yin", "yin", "yang", "yang", "yin", "yang">>),
    Hexagram(51, <<"1", "0", "0", "1", "0", "0">>, "zhen", "zhen",
           <<"yang", "yin", "yin", "yin", "yin", "yin">>),
    Hexagram(52, <<"0", "0", "1", "0", "0", "1">>, "gen", "gen",
           <<"yin", "yin", "yang", "yin", "yin", "yang">>),
    Hexagram(53, <<"0", "0", "1", "0", "1", "1">>, "xun", "gen",
           <<"yin", "yin", "yang", "yin", "yang", "yang">>),
    Hexagram(54, <<"1", "1", "0", "1", "0", "0">>, "zhen", "dui",
           <<"yang", "yang", "yin", "yang", "yin", "yin">>),
    Hexagram(55, <<"1", "0", "1", "1", "0", "0">>, "zhen", "li",
           <<"yang", "yin", "yang", "yang", "yin", "yin">>),
    Hexagram(56, <<"1", "0", "1", "0", "0", "1">>, "li", "gen",
           <<"yin", "yin", "yang", "yang", "yin", "yang">>),
    Hexagram(57, <<"1", "1", "0", "1", "1", "0">>, "xun", "xun",
           <<"yin", "yang", "yang", "yin", "yang", "yin">>),
    Hexagram(58, <<"1", "1", "0", "0", "1", "1">>, "dui", "dui",
           <<"yang", "yang", "yin", "yang", "yin", "yang">>),
    Hexagram(59, <<"0", "1", "0", "0", "1", "1">>, "xun", "kan",
           <<"yin", "yang", "yin", "yin", "yang", "yang">>),
    Hexagram(60, <<"1", "1", "0", "0", "1", "0">>, "kan", "dui",
           <<"yin", "yang", "yin", "yang", "yang", "yin">>),
    Hexagram(61, <<"1", "1", "0", "0", "1", "1">>, "xun", "dui",
           <<"yang", "yang", "yin", "yang", "yang", "yin">>),
    Hexagram(62, <<"0", "0", "1", "1", "0", "0">>, "zhen", "gen",
           <<"yin", "yin", "yang", "yang", "yin", "yin">>),
    Hexagram(63, <<"1", "0", "1", "0", "1", "0">>, "kan", "li",
           <<"yang", "yin", "yang", "yin", "yang", "yin">>),
    Hexagram(64, <<"1", "0", "1", "0", "1", "0">>, "li", "kan",
           <<"yin", "yang", "yin", "yang", "yin", "yang">>)>>

\* 1: qian, 2: dui, 3: li, 4: zhen, 5: xun, 6: kan, 7: gen, 8: kun
trigramMap == <<"qian", "dui", "li", "zhen", "xun", "kan", "gen", "kun">>

\* trigramMap[n]: undefined for a key that is not 1..8
trigramName(n) == IF n \in 1..8 THEN trigramMap[n] ELSE "undefined"

\* the for-in loop over the keys in ascending order, returning at the first
\* entry of the two trigrams; 1 when the loop ends
getHexagramNumber(upper, lower) ==
  IF \E n \in 1..Len(ALL_HEXAGRAMS) :
       /\ ALL_HEXAGRAMS[n].upperTrigram = trigramName(upper)
       /\ ALL_HEXAGRAMS[n].lowerTrigram = trigramName(lower)
    THEN CHOOSE n \in 1..Len(ALL_HEXAGRAMS) :
           /\ ALL_HEXAGRAMS[n].upperTrigram = trigramName(upper)
           /\ ALL_HEXAGRAMS[n].lowerTrigram = trigramName(lower)
           /\ \A k \in 1..(n - 1) :
                ~(/\ ALL_HEXAGRAMS[k].upperTrigram = trigramName(upper)
                  /\ ALL_HEXAGRAMS[k].lowerTrigram = trigramName(lower))
    ELSE 1

\* this.ALL_HEXAGRAMS[hexNumber] || this.ALL_HEXAGRAMS[1]
getHexagramInfo(hexNumber) ==
  IF hexNumber \in 1..Len(ALL_HEXAGRAMS) THEN ALL_HEXAGRAMS[hexNumber] ELSE ALL_HEXAGRAMS[1]

\* String(n) of a non-negative integer
RECURSIVE DecimalChars(_)
DecimalChars(n) ==
  IF n < 10 THEN <<DigitChars[n + 1]>>
  ELSE DecimalChars(n \div 10) \o <<DigitChars[(n % 10) + 1]>>

\* String(userId)
stringOf(v) == IF v.type = "number" THEN DecimalChars(v.value) ELSE v.chars

\* s.slice(-5)
lastFive(chars) ==
  IF Len(chars) <= 5 THEN chars ELSE SubSeq(chars, Len(chars) - 4, Len(chars))

\* userId ? parseInt(String(userId).slice(-5).replace(/[^0-9]/g, '') || '12', 10) : 12
userFactorOf(userId) ==
  IF ~Truthy(userId) THEN 12
  ELSE IF SelectSeq(lastFive(stringOf(userId)), IsDigit) = <<>> THEN 12
  ELSE DigitsValue(SelectSeq(lastFive(stringOf(userId)), IsDigit))

\* x % 8 without the || 8
trigramNumOf_NoEight(sum) == JsRem(sum, 8)

\* x % 8 || 8
trigramNumOf(sum) == IF JsRem(sum, 8) = 0 THEN 8 ELSE JsRem(sum, 8)

\* generateHexagram(currentTime, userId); currentTime as its local year,
\* month, day, hour and minute
generateHexagram(currentTime, userId) ==
  [mainHex |-> getHexagramNumber(
                 trigramNumOf(currentTime.year + currentTime.month + currentTime.day
                                + userFactorOf(userId)),
                 trigramNumOf(currentTime.year + currentTime.month + currentTime.day
                                + currentTime.hour + currentTime.minute
                                + userFactorOf(userId))),
   changingLines |-> ArrayOf(<<JsRem(currentTime.year + currentTime.month
                                      + currentTime.day + currentTime.hour
                                      + currentTime.minute + userFactorOf(userId), 6) + 1>>)]

\* charArray[index] = charArray[index] === '1' ? '0' : '1', index = 6 - linePos,
\* under if (index >= 0 && index < 6)
flipLine(binary, linePos) ==
  IF 6 - linePos >= 0 /\ 6 - linePos < 6
    THEN [binary EXCEPT ![6 - linePos + 1] = IF @ = "1" THEN "0" ELSE "1"]
    ELSE binary

\* changingLines.forEach(...)
RECURSIVE flipLines(_, _)
flipLines(binary, changingLines) ==
  IF changingLines = <<>> THEN binary
  ELSE flipLines(flipLine(binary, Head(changingLines)), Tail(changingLines))

\* the for-in loop over the keys in ascending order, returning the first entry
\* of the binary; null when the loop ends
hexagramOfBinary(binary) ==
  IF \E n \in 1..Len(ALL_HEXAGRAMS) : ALL_HEXAGRAMS[n].binary = binary
    THEN ALL_HEXAGRAMS[CHOOSE n \in 1..Len(ALL_HEXAGRAMS) :
                         /\ ALL_HEXAGRAMS[n].binary = binary
                         /\ \A k \in 1..(n - 1) : ALL_HEXAGRAMS[k].binary # binary]
    ELSE Null

\* getChangingHexagram(originalHexInfo, changingLines); changingLines is an
\* array, or undefined
getChangingHexagram(originalHexInfo, changingLines) ==
  IF changingLines.type = "undefined" \/ Len(changingLines.chars) = 0 THEN Null
  ELSE hexagramOfBinary(flipLines(originalHexInfo.binary, changingLines.chars))

\* the time stamps a divination is cast at, and the users
CastTimes ==
  [year : {2024, 2025}, month : {1, 12}, day : 1..8, hour : {0, 1, 2, 3, 4, 5, 6, 23},
   minute : {0, 59}]

UserIds ==
  {Undefined, NumberOf(0), NumberOf(7), NumberOf(1234567), StringOf(<<>>),
   StringOf(<<"a", "b">>), StringOf(<<"u", "-", "4", "2">>)}

\* the lists of changing lines handed to getChangingHexagram
ChangingLineLists == {Undefined, ArrayOf(<<>>)} \cup {ArrayOf(<<p>>) : p \in 0..7}

InitGenerate ==
  /\ op = "generate"
  /\ input \in [currentTime : CastTimes, userId : UserIds]

InitChanging ==
  /\ op = "changing"
  /\ input \in [hexNumber : 1..Len(ALL_HEXAGRAMS), changingLines : ChangingLineLists]

InitYijing ==
  /\ ServiceIdle
  /\ LimiterIdle
  /\ (InitGenerate \/ InitChanging)
  /\ result = NoResult
  /\ lookups = <<>>
  /\ pc = "call"

\* performYijingAnalysis up to its hexagram_info: generateHexagram,
\* getHexagramInfo and getChangingHexagram
PerformYijingAnalysis ==
  /\ pc = "call"
  /\ op = "generate"
  /\ result' = [hexagramData |-> generateHexagram(input.currentTime, input.userId),
                mainHexagramInfo |->
                  getHexagramInfo(generateHexagram(input.currentTime, input.userId).mainHex),
                changingHexagramInfo |->
                  getChangingHexagram(
                    getHexagramInfo(generateHexagram(input.currentTime, input.userId).mainHex),
                    generateHexagram(input.currentTime, input.userId).changingLines)]
  /\ pc' = "done"
  /\ UNCHANGED <<op, input, lookups, serviceVars, limiterVars>>

GetChangingHexagram ==
  /\ pc = "call"
  /\ op = "changing"
  /\ result' = [changingHexagramInfo |->
                  getChangingHexagram(getHexagramInfo(input.hexNumber), input.changingLines)]
  /\ pc' = "done"
  /\ UNCHANGED <<op, input, lookups, serviceVars, limiterVars>>

NextYijing == PerformYijingAnalysis \/ GetChangingHexagram

SpecYijing == InitYijing /\ [][NextYijing]_vars

----------------------------------------------------------------------------
(* The validation middleware: InputValidator of inputValidator.cjs.          *)

AppError(message) == [thrown |-> "AppError", message |-> message]

\* value === null || value === undefined || value === ''
isMissing(value) == value.type = "undefined" \/ (value.type = "string" /\ value.chars = <<>>)

\* a character of /[\u4e00-\u9fa5a-zA-Z\s]/ among the characters written here:
\* every one but the digits and the punctuation
IsNameChar(c) == ~IsDigit(c) /\ c \notin {"-", ":", "/", "_", "?", "."}

\* validateName: validateRequired, validateLength(name, 1, 50), mixedName
validateName(name) ==
  IF isMissing(name) THEN AppError("required")
  ELSE IF name.type # "string" THEN AppError("notString")
  ELSE IF Len(name.chars) < 1 \/ Len(name.chars) > 50 THEN AppError("invalid_length")
  ELSE IF ~(\A i \in 1..Len(name.chars) : IsNameChar(name.chars[i])) THEN AppError("nameChars")
  ELSE NoError

\* validateBirthDate; the pattern is tested on String(birthDate), the year is
\* read by getFullYear in a time zone at or east of Greenwich
validateBirthDate(birthDate, currentTime) ==
  IF isMissing(birthDate) THEN AppError("required")
  ELSE IF ~dateRegexTest(stringOf(birthDate)) THEN AppError("invalid_format")
  ELSE IF ~newDate(stringOf(birthDate)).valid THEN AppError("invalid_date")
  ELSE IF newDate(stringOf(birthDate)).year < 1900 \/ newDate(stringOf(birthDate)).year > 2100
    THEN AppError("yearRange")
  ELSE IF getTime(newDate(stringOf(birthDate))) > currentTime THEN AppError("future")
  ELSE NoError

\* validateBirthTime: optional; the pattern, then hour 0..23 and minute 0..59
validateBirthTime(birthTime) ==
  IF ~Truthy(birthTime) THEN NoError
  ELSE IF ~timeRegexTest(stringOf(birthTime)) THEN AppError("invalid_format")
  ELSE IF splitTime(stringOf(birthTime)).hours < 0 \/ splitTime(stringOf(birthTime)).hours > 23
    THEN AppError("hour")
  ELSE IF splitTime(stringOf(birthTime)).minutes < 0
          \/ splitTime(stringOf(birthTime)).minutes > 59
    THEN AppError("minute")
  ELSE NoError

\* validateGender: optional; one of 'male', 'female', '男', '女'
validateGender(gender) ==
  IF ~Truthy(gender) THEN NoError
  ELSE IF gender.type = "string"
          /\ gender.chars \in {<<"m", "a", "l", "e">>, <<"f", "e", "m", "a", "l", "e">>,
                                <<"nan">>, <<"nv">>}
    THEN NoError
  ELSE AppError("invalid_gender")

\* validateBaziData of a birth-data object without birth_place: the first
\* check that throws, or NoError
validateBaziData(birthData, currentTime) ==
  FirstError(<<validateName(birthData.name),
               validateBirthDate(birthData.birth_date, currentTime),
               validateBirthTime(birthData.birth_time),
               validateGender(birthData.gender)>>)

----------------------------------------------------------------------------
(* Vocabulary of the properties: the five-element cycles by position, the   *)
(* two starting tables by stem name, and the state of a finished call.      *)

BaziDone == op = "bazi" /\ pc = "done"

TenGodDone == op = "tenGod" /\ pc = "done"

LevelDone == op = "level" /\ pc = "done"

UseGodDone == op = "useGod" /\ pc = "done"

\* position in the production cycle wood -> fire -> earth -> metal -> water -> wood
CyclePosition(element) ==
  CASE element = "wood" -> 0 [] element = "fire" -> 1 [] element = "earth" -> 2
    [] element = "metal" -> 3 [] element = "water" -> 4

Produces(a, b) == CyclePosition(b) = (CyclePosition(a) + 1) % 5

\* destruction cycle wood -> earth -> water -> fire -> metal -> wood
Destroys(a, b) == CyclePosition(b) = (CyclePosition(a) + 2) % 5

\* stems come in pairs of one element, yang first
ElementOfStem(stem) ==
  CHOOSE e \in Elements : CyclePosition(e) = getStemIndex(stem) \div 2

SamePolarity(x, y) == getStemIndex(x) % 2 = getStemIndex(y) % 2

\* rat-start: jia/ji -> jia, yi/geng -> bing, bing/xin -> wu, ding/ren -> geng, wu/gui -> ren
RatStart(dayStem) ==
  CASE dayStem \in {"jia", "ji"} -> "jia"
    [] dayStem \in {"yi", "geng"} -> "bing"
    [] dayStem \in {"bing", "xin"} -> "wu"
    [] dayStem \in {"ding", "ren"} -> "geng"
    [] dayStem \in {"wu", "gui"} -> "ren"

\* five-tiger: jia/ji -> bing, yi/geng -> wu, bing/xin -> geng, ding/ren -> ren, wu/gui -> jia
FiveTigerStart(yearStem) ==
  CASE yearStem \in {"jia", "ji"} -> "bing"
    [] yearStem \in {"yi", "geng"} -> "wu"
    [] yearStem \in {"bing", "xin"} -> "geng"
    [] yearStem \in {"ding", "ren"} -> "ren"
    [] yearStem \in {"wu", "gui"} -> "jia"

\* the stem `steps` positions after `start` in the 10-cycle
StemAfter(start, steps) == Stems[((getStemIndex(start) + steps) % 10) + 1]

\* solar-month steps of a branch from yin: yin = 0, mao = 1, ..., chou = 11
StepsFromTiger(branch) ==
  (CHOOSE i \in 1..12 :
     <<"yin", "mao", "chen", "si", "wuB", "wei", "shen", "you", "xu", "hai", "zi", "chou">>[i]
       = branch) - 1

\* the calendar day before a date
PreviousDay(date) ==
  IF date.day > 1 THEN [date EXCEPT !.day = date.day - 1]
  ELSE IF date.month > 1
    THEN [year |-> date.year, month |-> date.month - 1,
          day |-> DaysInMonth(date.year, date.month - 1)]
    ELSE [year |-> date.year - 1, month |-> 12, day |-> 31]

\* the day-pillar lookup of the birth day of the call, and of the day after it
LookupOfBirthDay ==
  getAccurateDayPillar(input.birth_date.year, input.birth_date.month, input.birth_date.day)

LookupOfDayAfter ==
  LET next == NextDay(input.birth_date.year, input.birth_date.month, input.birth_date.day)
  IN getAccurateDayPillar(next.year, next.month, next.day)

----------------------------------------------------------------------------
(* Pillar computation: properties *)

\* C1: for birth hour 23 on day D the Day pillar is the lookup of D while the
\* Hour stem is derived, by the rat-start table, from the day stem of D + 1;
\* for every other hour (0 included) the Day pillar and the stem the Hour
\* stem is derived from both come from D.
C1_LateZiUsesNextDayStem ==
  BaziDone =>
    LET hour == birthHourOf(input.birth_time)
        source == IF hour = 23 THEN LookupOfDayAfter.stem ELSE LookupOfBirthDay.stem
    IN /\ result.day_pillar.stem = LookupOfBirthDay.stem
       /\ result.day_pillar.branch = LookupOfBirthDay.branch
       /\ result.hour_pillar.stem =
            StemAfter(RatStart(source), getBranchIndex(result.hour_pillar.branch))

\* a chart for 23:xx on the last day of a year: the day after is in the next year
C1_Witness ==
  /\ BaziDone
  /\ input.birth_time = <<23>>
  /\ input.birth_date.month = 12 /\ input.birth_date.day = 31
  /\ result.hour_pillar.is_late_zishi
  /\ result.day_pillar.stem = LookupOfBirthDay.stem
  /\ result.hour_pillar.stem = StemAfter(RatStart(LookupOfDayAfter.stem), 0)
  /\ result.hour_pillar.stem # StemAfter(RatStart(LookupOfBirthDay.stem), 0)

\* C2: the year pillar of an instant on the first day on or after Start of
\* Spring of calendar year Y is one step of the 60-cycle (stem + 1 mod 10,
\* branch + 1 mod 12) after the year pillar of every instant of the day before.
C2_YearRolloverOneStep ==
  LET date == input.birth_date
      hour == birthHourOf(input.birth_time)
      before == PreviousDay(date)
  IN (/\ BaziDone
      /\ isAfterSpringBeginning(date.year, date.month, date.day, hour)
      /\ before.year = date.year
      /\ ~isAfterSpringBeginning(before.year, before.month, before.day, 23))
     => \A h \in 0..23 :
          LET earlier == calculateYearPillar(before.year, before.month, before.day, h)
          IN /\ ~isAfterSpringBeginning(before.year, before.month, before.day, h)
             /\ getStemIndex(result.year_pillar.stem) = (earlier.stemIndex + 1) % 10
             /\ getBranchIndex(result.year_pillar.branch) = (earlier.branchIndex + 1) % 12

\* a chart of the first hour of the Start-of-Spring day of the reference year
C2_Witness ==
  /\ BaziDone
  /\ input.birth_time = <<0>>
  /\ input.birth_date.year = BaseYear
  /\ isAfterSpringBeginning(input.birth_date.year, input.birth_date.month,
                            input.birth_date.day, 0)
  /\ ~isAfterSpringBeginning(PreviousDay(input.birth_date).year,
                             PreviousDay(input.birth_date).month,
                             PreviousDay(input.birth_date).day, 23)
  /\ PreviousDay(input.birth_date).year = BaseYear
  /\ result.year_pillar.stem = "jia" /\ result.year_pillar.branch = "zi"

\* C3: the year pillar is that of the calendar year on or after Start of
\* Spring and of the year before otherwise; its stem and branch indices are
\* (effectiveYear - 1984) mod 10 and mod 12, in 0..9 and 0..11, also when
\* effectiveYear is before 1984.
C3_YearPillarIndices ==
  BaziDone =>
    LET date == input.birth_date
        effectiveYear ==
          IF isAfterSpringBeginning(date.year, date.month, date.day,
                                    birthHourOf(input.birth_time))
            THEN date.year ELSE date.year - 1
        pillar == calculateYearPillar(date.year, date.month, date.day,
                                      birthHourOf(input.birth_time))
    IN /\ pillar.stemIndex \in 0..9
       /\ pillar.branchIndex \in 0..11
       /\ pillar.stemIndex = (effectiveYear - 1984) % 10
       /\ pillar.branchIndex = (effectiveYear - 1984) % 12
       /\ result.year_pillar.stem = Stems[((effectiveYear - 1984) % 10) + 1]
       /\ result.year_pillar.branch = Branches[((effectiveYear - 1984) % 12) + 1]

\* a chart before Start of Spring 1983: effective year 1982, raw remainders -2
C3_Witness ==
  /\ BaziDone
  /\ input.birth_date.year = 1983
  /\ ~isAfterSpringBeginning(input.birth_date.year, input.birth_date.month,
                             input.birth_date.day, birthHourOf(input.birth_time))
  /\ JsRem(1982 - BaseYear, 10) < 0
  /\ result.year_pillar.stem = "ren" /\ result.year_pillar.branch = "xu"

C5_HourPillarRatStart ==
  BaziDone =>
    LET h == birthHourOf(input.birth_time)
        branchIndex == ((h + 1) \div 2) % 12
        effectiveDayStem == IF h = 23 THEN LookupOfDayAfter.stem ELSE LookupOfBirthDay.stem
    IN /\ result.hour_pillar.branch = Branches[branchIndex + 1]
       /\ (h \in {0, 23} => result.hour_pillar.branch = "zi")
       /\ getStemIndex(result.hour_pillar.stem) =
            (getStemIndex(RatStart(effectiveDayStem)) + branchIndex) % 10

\* a chart for 21:xx of a gui day: branch hai (11), stem ren + 11 = gui
C5_Witness ==
  /\ BaziDone
  /\ input.birth_time = <<21>>
  /\ result.day_pillar.stem = "gui"
  /\ result.hour_pillar.branch = "hai"
  /\ result.hour_pillar.stem = "gui"

----------------------------------------------------------------------------
(* Ten-god relation: properties *)

\* the label the five-element relation and the polarity match fix
TenGodOf(dayMaster, target) ==
  LET d == ElementOfStem(dayMaster)
      t == ElementOfStem(target)
      same == SamePolarity(dayMaster, target)
  IN CASE dayMaster = target -> "bijian"
       [] dayMaster # target /\ d = t -> IF same THEN "bijian" ELSE "jiecai"
       [] Produces(d, t) -> IF same THEN "shishen" ELSE "shangguan"
       [] Destroys(d, t) -> IF same THEN "piancai" ELSE "zhengcai"
       [] Destroys(t, d) -> IF same THEN "qisha" ELSE "zhengguan"
       [] Produces(t, d) -> IF same THEN "pianyin" ELSE "zhengyin"

\* C6: calculateTenGod answers every one of the 10 x 10 stem pairs with one of
\* the ten labels, never the fallback: identical stems are bijian, and
\* otherwise the label is fixed by the relation of the target's element to
\* the day master's element and by whether the polarities match.
C6_TenGodTotal ==
  TenGodDone =>
    /\ result.ten_god # "unknown"
    /\ result.ten_god \in {"bijian", "jiecai", "shishen", "shangguan", "piancai",
                           "zhengcai", "qisha", "zhengguan", "pianyin", "zhengyin"}
    /\ (input.dayMaster = input.targetStem => result.ten_god = "bijian")
    /\ result.ten_god = TenGodOf(input.dayMaster, input.targetStem)

\* gui (yin water) seen from jia (yang wood): the target produces the day
\* master, polarities differ
C6_Witness ==
  /\ TenGodDone
  /\ input.dayMaster = "jia" /\ input.targetStem = "gui"
  /\ result.ten_god = "zhengyin"

\* C7: when X's element produces Y's element, calculateTenGod(X, Y) differs
\* from calculateTenGod(Y, X).
C7_TenGodAsymmetric ==
  (TenGodDone /\ Produces(ElementOfStem(input.dayMaster), ElementOfStem(input.targetStem)))
    => result.ten_god # calculateTenGod(input.targetStem, input.dayMaster)

\* jia (wood) produces bing (fire): shishen one way, pianyin the other
C7_Witness ==
  /\ TenGodDone
  /\ input.dayMaster = "jia" /\ input.targetStem = "bing"
  /\ result.ten_god = "shishen"
  /\ calculateTenGod("bing", "jia") = "pianyin"

----------------------------------------------------------------------------
(* Elemental-strength scorer: properties *)

\* the four pillars of the finished chart, as analyzeElementStrength gets them
ChartPillars ==
  [year |-> result.year_pillar, month |-> result.month_pillar,
   day |-> result.day_pillar, hour |-> result.hour_pillar]

\* the doubles 1.0, 0.6, 0.3 for the first, second, third hidden stem
\* (0-based index)
HiddenWeight(index) == DoubleOf(<<1000, 600, 300>>[index + 1])

\* C8: every hidden stem of every branch of the four pillars adds base x
\* weight to the hidden-stem total: base +3 when its element is the day
\* master's, +2 when it produces the day master's, -1 when the day master's
\* produces it, -3 when it destroys the day master's; weight 1.0 / 0.6 / 0.3
\* by position.
C8_HiddenStemBaseTimesWeight ==
  BaziDone =>
    LET dayElement == result.day_master_element
        contributions == HiddenStemContributions(dayElement, ChartPillars)
    IN /\ result.element_strength.hidden_stem_support.total_score = SumScores(contributions)
       /\ \A i \in 1..Len(contributions) :
            LET c == contributions[i]
                hidden == ElementOfStem(c.hidden_stem)
                weight == HiddenWeight(c.index)
            IN /\ (hidden = dayElement => c.score = DoubleTimes(3, weight))
               /\ (Produces(hidden, dayElement) => c.score = DoubleTimes(2, weight))
               /\ (Produces(dayElement, hidden) => c.score = DoubleTimes(-1, weight))
               /\ (Destroys(hidden, dayElement) => c.score = DoubleTimes(-3, weight))

\* C9: the stem-support total is the sum, over the Year, Month and Hour
\* pillars' visible stems only, of: +2 same element, +1.5 stem produces the
\* day master, -0.5 stem is produced by the day master, -1 stem destroys the
\* day master, -1.5 stem is destroyed by the day master; no positional
\* weight; every non-zero contribution is itemized.
C9_StemSupportScores ==
  BaziDone =>
    LET dayElement == result.day_master_element
        scoreOf(stem) ==
          LET e == ElementOfStem(stem)
          IN CASE e = dayElement -> 2000
               [] Produces(e, dayElement) -> 1500
               [] Produces(dayElement, e) -> -500
               [] Destroys(e, dayElement) -> -1000
               [] Destroys(dayElement, e) -> -1500
        support == result.element_strength.stem_support
    IN /\ support.total_score =
            DoubleOf(scoreOf(result.year_pillar.stem) + scoreOf(result.month_pillar.stem)
                       + scoreOf(result.hour_pillar.stem))
       /\ Len(support.details) = 3
       /\ \A i \in 1..Len(support.details) :
            /\ support.details[i].position # "day"
            /\ support.details[i].score = DoubleOf(scoreOf(support.details[i].stem))

\* score < t / 1000, for a threshold t that is an integer number of units
ScoreBelow(score, t) == score.m < t \/ (score.m = t /\ score.e < 0)

\* the five bands, lower bound inclusive
StrengthBand(score) ==
  CASE ~ScoreBelow(score, 6000) -> "taiwang"
    [] ~ScoreBelow(score, 3000) /\ ScoreBelow(score, 6000) -> "pianwang"
    [] ~ScoreBelow(score, -1000) /\ ScoreBelow(score, 3000) -> "zhonghe"
    [] ~ScoreBelow(score, -4000) /\ ScoreBelow(score, -1000) -> "pianruo"
    [] ScoreBelow(score, -4000) -> "tairuo"

\* C10: the overall score is the plain sum of month score, hidden-stem total
\* and stem total, and getStrengthLevel puts it in lower-bound-inclusive
\* bands: >= 6 taiwang, 3 <= s < 6 pianwang, -1 <= s < 3 zhonghe,
\* -4 <= s < -1 pianruo, s < -4 tairuo (3 is pianwang, 2.999 zhonghe, -1
\* zhonghe, -4 pianruo).
C10_StrengthBands ==
  /\ LevelDone =>
       /\ result.strength_level = StrengthBand(input.total_score)
       /\ (input.total_score = DoubleOf(3000) => result.strength_level = "pianwang")
       /\ (input.total_score = DoubleOf(2999) => result.strength_level = "zhonghe")
       /\ (input.total_score = DoubleOf(-1000) => result.strength_level = "zhonghe")
       /\ (input.total_score = DoubleOf(-4000) => result.strength_level = "pianruo")
  /\ BaziDone =>
       LET strength == result.element_strength
       IN /\ strength.overall_strength.total_score =
               DoubleAdd(DoubleAdd(strength.overall_strength.month_score,
                                   strength.hidden_stem_support.total_score),
                         strength.stem_support.total_score)
          /\ strength.strength_level = StrengthBand(strength.overall_strength.total_score)

\* getStrengthLevel answered pianwang for a score of exactly 3
C10_Witness ==
  /\ LevelDone
  /\ input.total_score = DoubleOf(3000)
  /\ result.strength_level = "pianwang"

\* the nine season labels
SeasonLabels == {"wang", "xiang", "xiu", "qiu", "si", "jue", "mu", "sheng", "yuqi"}

\* the month score of a season label, in units
SeasonWeight(label) ==
  CASE label = "wang" -> 4 [] label = "xiang" -> 2 [] label = "xiu" -> 0
    [] label = "qiu" -> -2 [] label = "si" -> -3 [] label = "jue" -> -4
    [] label = "mu" -> -1 [] label = "sheng" -> 1 [] label = "yuqi" -> 1

\* C11: for each of the 5 day-master elements and 12 month branches
\* getMonthStrength answers one of the nine season labels, never the ping
\* fallback, and calculateOverallStrength gives the label the month score
\* wang 4, xiang 2, xiu 0, qiu -2, si -3, jue -4, mu -1, sheng 1, yuqi 1;
\* wood in yin is wang, score 4.
C11_MonthStrengthLabels ==
  /\ \A e \in Elements : \A i \in 1..12 : getMonthStrength(e, Branches[i]) \in SeasonLabels
  /\ \A label \in SeasonLabels : monthScoreOf(label) = [m |-> 1000 * SeasonWeight(label), e |-> 0]
  /\ BaziDone =>
       LET strength == result.element_strength
       IN /\ strength.month_strength \in SeasonLabels
          /\ strength.overall_strength.month_score =
               [m |-> 1000 * SeasonWeight(strength.month_strength), e |-> 0]
          /\ (result.day_master_element = "wood" /\ result.month_order = "yin"
                => strength.month_strength = "wang")

\* a chart of a wood day master born in the yin month: wang, month score 4
C11_Witness ==
  /\ BaziDone
  /\ result.day_master_element = "wood"
  /\ result.month_order = "yin"
  /\ result.element_strength.month_strength = "wang"
  /\ result.element_strength.overall_strength.month_score = [m |-> 4000, e |-> 0]

----------------------------------------------------------------------------
(* Use-god analysis: properties *)

\* the elements a use_god / avoid_god value names
ElementsNamed(groups) ==
  UNION {{groups[i].elements[k] : k \in 1..Len(groups[i].elements)} : i \in 1..Len(groups)}

\* a finished use-god analysis in the current state: of a chart, or of a
\* direct call
UseGodAnalyses ==
  IF BaziDone
    THEN {[element |-> result.day_master_element,
           level |-> StrengthBand(result.element_strength.overall_strength.total_score),
           analysis |-> result.element_strength.use_god_analysis]}
  ELSE IF UseGodDone
    THEN {[element |-> input.dayElement,
           level |-> StrengthBand(input.strengthAnalysis.total_score),
           analysis |-> result]}
  ELSE {}

\* restrains: destroys e; drains: produced by e; consumes: destroyed by e
Restrainers(e) == {x \in Elements : Destroys(x, e)}
Drainers(e) == {x \in Elements : Produces(e, x)}
Consumers(e) == {x \in Elements : Destroys(e, x)}
Generators(e) == {x \in Elements : Produces(x, e)}

StrongLevels == {"taiwang", "pianwang"}
WeakLevels == {"tairuo", "pianruo"}

\* C12: for day-master element e, at a strong level (taiwang, pianwang) the
\* favorable elements are exactly the one that destroys e, the one e produces
\* and the one e destroys, and the unfavorable exactly e and the one that
\* produces e; at a weak level (pianruo, tairuo) the two sets change places;
\* at zhonghe no element is named, only the situational rationale.  Wood and
\* strong: favorable metal, fire, earth; unfavorable wood, water.
C12_UseGodSets ==
  \A u \in UseGodAnalyses :
    LET favorable == ElementsNamed(u.analysis.use_god)
        unfavorable == ElementsNamed(u.analysis.avoid_god)
        threeOthers == Restrainers(u.element) \cup Drainers(u.element) \cup Consumers(u.element)
        selfAndSource == {u.element} \cup Generators(u.element)
    IN /\ u.analysis.strength_level = u.level
       /\ u.level \in StrongLevels => favorable = threeOthers /\ unfavorable = selfAndSource
       /\ u.level \in WeakLevels => favorable = selfAndSource /\ unfavorable = threeOthers
       /\ u.level = "zhonghe" =>
            /\ favorable = {} /\ unfavorable = {}
            /\ u.analysis.analysis.advice = "shunqiziran"
       /\ (u.element = "wood" /\ u.level \in StrongLevels
             => favorable = {"metal", "fire", "earth"} /\ unfavorable = {"wood", "water"})

\* a chart of a strong wood day master with favorable metal, fire, earth
C12_Witness ==
  /\ BaziDone
  /\ result.day_master_element = "wood"
  /\ result.element_strength.strength_level \in StrongLevels
  /\ ElementsNamed(result.element_strength.use_god_analysis.use_god) = {"metal", "fire", "earth"}
  /\ ElementsNamed(result.element_strength.use_god_analysis.avoid_god) = {"wood", "water"}

\* C13: for every day-master element and every level other than zhonghe the
\* favorable and the unfavorable element sets are disjoint and together are
\* all five elements.
C13_UseGodPartition ==
  \A u \in UseGodAnalyses :
    u.level # "zhonghe" =>
      /\ ElementsNamed(u.analysis.use_god) \cap ElementsNamed(u.analysis.avoid_god) = {}
      /\ ElementsNamed(u.analysis.use_god) \cup ElementsNamed(u.analysis.avoid_god) = Elements

\* a direct call for a weak water day master: two favorable, three unfavorable
C13_Witness ==
  /\ UseGodDone
  /\ input.dayElement = "water"
  /\ result.strength_level \in WeakLevels
  /\ Cardinality(ElementsNamed(result.use_god)) = 2
  /\ Cardinality(ElementsNamed(result.avoid_god)) = 3

----------------------------------------------------------------------------
(* performFullBaziAnalysis: properties *)

\* the calls that came as far as a chart
ChartedCalls == {i \in 1..Len(calls) : calls[i].chart # NoResult}

SubstitutedValues(chart) ==
  \/ chart.month_pillar.branch \notin {Branches[i] : i \in 1..12}
  \/ chart.element_strength.month_strength = "ping"

RefusedDate(date, t) ==
  \/ date \in BadDates
  \/ \E y \in BirthYears, m \in 1..12, d \in 1..31 :
       date = DateText(y, m, d) /\ 24 * DaysSince1900(y, m, d) > t

\* the supplied birth times that are not HH:MM with hour 0..23, minute 0..59
RefusedTime(time) ==
  /\ time # Undefined /\ time # StringOf(<<>>)
  /\ ~\E h \in 0..23, m \in 0..59 : time = TimeText(h, m)

\* C16: performFullBaziAnalysis rejects with an input error, before it
\* consults the cache or computes a pillar, whenever birth_date is missing,
\* not YYYY-MM-DD, unparseable, before 1900-01-01 or after the current date,
\* or a supplied birth_time is not HH:MM with hour 0..23 and minute 0..59; a
\* missing birth_time is accepted and read as 12:00.
C16_InputRejectedFirst ==
  \A i \in 1..Len(calls) :
    LET call == calls[i]
    IN /\ (RefusedDate(call.birth_data.birth_date, call.entered_at)
             \/ RefusedTime(call.birth_data.birth_time))
            => /\ call.stage = "thrown"
               /\ call.outcome.thrown = "Error"
               /\ ~call.cacheConsulted
               /\ ~call.pillarsComputed
       /\ (call.birth_data.birth_time = Undefined /\ call.chart # NoResult)
            => call.chart.hour_pillar.branch = getBranchByIndex(hourBranchIndexOf(12))

\* C17: calls with the same birth data compute the chart at most once: a
\* call that enters after an earlier call with the same data has returned its
\* result is answered from the cache, with that result and without computing.
C17_ComputedAtMostOnce ==
  \A j \in 1..Len(calls) : \A i \in calls[j].seen_returned :
    calls[i].birth_data = calls[j].birth_data
      => /\ ~calls[j].pillarsComputed
         /\ calls[j].stage = "returned"
         /\ calls[j].outcome = calls[i].outcome

----------------------------------------------------------------------------
(* The daily limit of aiRateLimit.                                          *)

LimiterKeys == ClientIps \X RequestDates

\* no invocation so far left through the catch block
NoDatabaseError == \A key \in LimiterKeys : passed[key].failed = 0

\* C18: with the limit enabled, a daily limit L >= 1 and no database error,
\* at most L requests of a client address and date are handed to next(), and
\* no stored request_count exceeds L.
C18_AtMostLimitPassed ==
  (op = "limiter" /\ config.enabled /\ config.limit >= 1 /\ NoDatabaseError) =>
    /\ \A key \in LimiterKeys : passed[key].next <= config.limit
    /\ \A row \in usage : row.request_count <= config.limit

\* an address used up its limit and was then refused
C18_Witness ==
  /\ op = "limiter" /\ config.enabled /\ config.limit >= 1 /\ NoDatabaseError
  /\ \E key \in LimiterKeys :
       /\ passed[key].next = config.limit
       /\ passed[key].refused >= 1
       /\ \E row \in usage : /\ row.ip_address = key[1] /\ row.request_date = key[2]
                              /\ row.request_count = config.limit

\* the latest invocation went through the read, the test and the write
Decided == op = "limiter" /\ last # NoInvocation /\ config.enabled /\ ~last.dbError

\* the row of the latest invocation's address and date, before and after it
rowBefore == usageRow(last.before, last.clientIp, last.today)

rowAfter == usageRow(usage, last.clientIp, last.today)

\* the rows of the other addresses and dates
otherRows(rows) ==
  {row \in rows : ~(row.ip_address = last.clientIp /\ row.request_date = last.today)}

\* C19: a request whose stored count is below the limit is passed to next()
\* and the count grows by exactly 1, a missing row being created with count 1;
\* a request whose stored count has reached the limit is answered 429, next()
\* is not called and the table is left as it was.
C19_LimitDecision ==
  Decided =>
    /\ (rowBefore # NoRow /\ rowBefore.request_count < config.limit) =>
          /\ last.nextCalled /\ last.status = 200
          /\ rowAfter # NoRow /\ rowAfter.request_count = rowBefore.request_count + 1
          /\ otherRows(usage) = otherRows(last.before)
    /\ rowBefore = NoRow =>
          /\ last.nextCalled /\ last.status = 200
          /\ rowAfter # NoRow /\ rowAfter.request_count = 1
          /\ otherRows(usage) = otherRows(last.before)
    /\ (rowBefore # NoRow /\ rowBefore.request_count >= config.limit) =>
          /\ ~last.nextCalled /\ last.status = 429
          /\ usage = last.before

\* a row was created, then updated up to a limit of two or more, and the next
\* request of the address was refused
C19_Witness ==
  /\ Decided
  /\ config.limit >= 2
  /\ last.status = 429
  /\ rowBefore # NoRow /\ rowBefore.request_count = config.limit
  /\ passed[<<last.clientIp, last.today>>].next = config.limit
  /\ passed[<<last.clientIp, last.today>>].failed = 0

\* the request_count values the table holds for an address and a date
storedCounts(rows, clientIp, date) ==
  {row.request_count :
     row \in {r \in rows : r.ip_address = clientIp /\ r.request_date = date}}

\* the address of the latest invocation was refused on the date, or its row of
\* that date had reached the limit
blockedOn(date) ==
  \/ passed[<<last.clientIp, date>>].refused >= 1
  \/ \E count \in storedCounts(last.before, last.clientIp, date) : count >= config.limit

----------------------------------------------------------------------------
(* The hexagram table and the changing hexagram.                            *)

GenerateDone == op = "generate" /\ pc = "done"

ChangingDone == op = "changing" /\ pc = "done"

\* the two binary strings differ at the index (counted from 0) and nowhere else
DiffersOnlyAt(binary, other, index) ==
  /\ Len(other) = Len(binary)
  /\ \A i \in 1..Len(binary) : (other[i] # binary[i]) <=> (i = index + 1)

\* C21: for every hexagram of the table and every changing line p in 1..6
\* getChangingHexagram returns a hexagram, never null, whose binary is the
\* main hexagram's with exactly the character at index 6-p inverted; with no
\* changing line it returns null.
C21_ChangingHexagramIsOneFlip ==
  ChangingDone =>
    /\ \A p \in 1..6 :
         input.changingLines = ArrayOf(<<p>>) =>
           /\ result.changingHexagramInfo # Null
           /\ DiffersOnlyAt(ALL_HEXAGRAMS[input.hexNumber].binary,
                            result.changingHexagramInfo.binary, 6 - p)
    /\ input.changingLines \in {Undefined, ArrayOf(<<>>)} =>
         result.changingHexagramInfo = Null

\* C26: every entry's binary encodes its own six lines (the character at
\* index 6-k is '1' exactly when lines[k-1] is yang) and no two entries share
\* a binary; hence a changing hexagram has the line types of the main
\* hexagram except at the changing line.
C26_BinaryEncodesLines ==
  /\ \A n \in 1..Len(ALL_HEXAGRAMS) : \A k \in 1..6 :
       (ALL_HEXAGRAMS[n].binary[6 - k + 1] = "1") <=> (ALL_HEXAGRAMS[n].lines[k] = "yang")
  /\ \A n, m \in 1..Len(ALL_HEXAGRAMS) :
       ALL_HEXAGRAMS[n].binary = ALL_HEXAGRAMS[m].binary => n = m
  /\ ChangingDone =>
       \A p \in 1..6 :
         (input.changingLines = ArrayOf(<<p>>) /\ result.changingHexagramInfo # Null) =>
           \A k \in 1..6 :
             (result.changingHexagramInfo.lines[k] = ALL_HEXAGRAMS[input.hexNumber].lines[k])
               <=> (k # p)

\* 1 = qian, 2 = dui, 3 = li, 4 = zhen, 5 = xun, 6 = kan, 7 = gen, 8 = kun
TrigramNumbered(n) ==
  CASE n = 1 -> "qian" [] n = 2 -> "dui" [] n = 3 -> "li" [] n = 4 -> "zhen"
    [] n = 5 -> "xun" [] n = 6 -> "kan" [] n = 7 -> "gen" [] n = 8 -> "kun"

\* a sum mod 8, 0 read as 8
ModEight(sum) == IF sum % 8 = 0 THEN 8 ELSE sum % 8

\* year + month + day + userFactor of the cast, and the same with hour and minute
DateSum == input.currentTime.year + input.currentTime.month + input.currentTime.day
             + userFactorOf(input.userId)

TimeSum == DateSum + input.currentTime.hour + input.currentTime.minute

\* the table entries of an upper and a lower trigram
EntriesOf(upper, lower) ==
  {n \in 1..Len(ALL_HEXAGRAMS) :
     /\ ALL_HEXAGRAMS[n].upperTrigram = upper
     /\ ALL_HEXAGRAMS[n].lowerTrigram = lower}

\* C25: generateHexagram returns exactly one changing line in 1..6 and a main
\* hexagram number in 1..64, the only table entry whose upper and lower
\* trigrams are those numbered (year+month+day+userFactor) mod 8 and
\* (year+month+day+hour+minute+userFactor) mod 8, 0 read as 8; the table holds
\* every pair of trigrams exactly once, so the fallback 1 is never taken.
C25_GenerateHexagram ==
  /\ Len(ALL_HEXAGRAMS) = 64
  /\ \A u, l \in 1..8 : Cardinality(EntriesOf(TrigramNumbered(u), TrigramNumbered(l))) = 1
  /\ GenerateDone =>
       /\ \E p \in 1..6 : result.hexagramData.changingLines = ArrayOf(<<p>>)
       /\ result.hexagramData.mainHex \in 1..64
       /\ EntriesOf(TrigramNumbered(ModEight(DateSum)), TrigramNumbered(ModEight(TimeSum)))
            = {result.hexagramData.mainHex}

\* a cast of a user whose id ends in digits, with a sum that is a multiple
\* of 8 (the trigram kun) and a hexagram other than the first
C25_Witness ==
  /\ GenerateDone
  /\ input.userId = StringOf(<<"u", "-", "4", "2">>)
  /\ userFactorOf(input.userId) = 42
  /\ DateSum % 8 = 0
  /\ TimeSum % 8 # 0
  /\ result.hexagramData.mainHex # 1
  /\ ALL_HEXAGRAMS[result.hexagramData.mainHex].upperTrigram = "kun"
----------------------------------------------------------------------------
(* The collaborator queries of one chart.                                   *)

\* how many of the queries of the call went to the named function
QueriesOf(name) == Cardinality({i \in 1..Len(lookups) : lookups[i] = name})

\* the day-pillar lookup is queried once, or twice for birth hour 23
DayPillarQueries ==
  QueriesOf("getAccurateDayPillar") = IF birthHourOf(input.birth_time) = 23 THEN 2 ELSE 1

\* C22 as amended: one chart computation issues exactly three collaborator
\* queries for a birth hour other than 23 (isAfterSpringBeginning and
\* getSolarTermMonth of the boundary resolver, and the day-pillar lookup) and
\* exactly four for birth hour 23, the extra one being the day-pillar lookup
\* of the day after; the day-pillar lookup is queried once, or twice.
C22_LookupsPerChart ==
  BaziDone =>
    /\ Len(lookups) = IF birthHourOf(input.birth_time) = 23 THEN 4 ELSE 3
    /\ QueriesOf("isAfterSpringBeginning") = 1
    /\ QueriesOf("getSolarTermMonth") = 1
    /\ DayPillarQueries

\* C22 as stated: exactly two external lookups for a birth hour other than
\* 23 and exactly three for birth hour 23; the day-pillar lookup is queried
\* once, or twice in the late-Zi case.
C22_TwoLookupsPerChart ==
  BaziDone =>
    /\ Len(lookups) = IF birthHourOf(input.birth_time) = 23 THEN 3 ELSE 2
    /\ DayPillarQueries

\* a chart of birth hour 23: the lookup of the day after is the fourth query
C22_Witness ==
  /\ BaziDone
  /\ birthHourOf(input.birth_time) = 23
  /\ Len(lookups) = 4
  /\ lookups[4] = "getAccurateDayPillar"
  /\ result.hour_pillar.is_late_zishi
----------------------------------------------------------------------------
(* The element maps of use-god inference and the cycles of getElementRelation. *)

\* the list names one element
OneElement(list) == Len(list) = 1 /\ list[1] \in Elements

\* C23: for every element e the four literal maps agree with the two cycle
\* tables of getElementRelation: getRestrainElements(e) is the element that
\* overcomes e, getDrainElements(e) the element e generates,
\* getConsumeElements(e) the element e overcomes and getGenerateElements(e) the
\* element that generates e.
C23_MapsAgreeWithCycles ==
  UseGodDone =>
    /\ OneElement(getRestrainElements(input.dayElement))
    /\ getElementRelation(getRestrainElements(input.dayElement)[1], input.dayElement) = "overcome"
    /\ OneElement(getDrainElements(input.dayElement))
    /\ getElementRelation(input.dayElement, getDrainElements(input.dayElement)[1]) = "generate"
    /\ OneElement(getConsumeElements(input.dayElement))
    /\ getElementRelation(input.dayElement, getConsumeElements(input.dayElement)[1]) = "overcome"
    /\ OneElement(getGenerateElements(input.dayElement))
    /\ getElementRelation(getGenerateElements(input.dayElement)[1], input.dayElement) = "generate"

\* a strong earth day master: the inference names wood, which overcomes earth,
\* metal, which earth generates, and water, which earth overcomes, as favorable
C23_Witness ==
  /\ UseGodDone
  /\ input.dayElement = "earth"
  /\ result.strength_level \in StrongLevels
  /\ result.use_god = <<GodGroup(<<"wood">>, "guansha"), GodGroup(<<"metal">>, "shishang"),
                        GodGroup(<<"water">>, "caixing")>>
  /\ overcomeCycle["wood"] = "earth"
  /\ generateCycle["earth"] = "metal"
  /\ overcomeCycle["earth"] = "water"
----------------------------------------------------------------------------
(* aiRateLimit when the database fails and when the limit is switched off.   *)

\* C24: aiRateLimit fails open: when a database statement of the middleware
\* throws, the request is still passed to next() and no 429 is sent; when the
\* limit is disabled the request is passed to next() and no usage row is read
\* or written.
C24_FailsOpen ==
  (op = "limiter" /\ last # NoInvocation) =>
    /\ last.dbError => (last.nextCalled /\ last.status # 429 /\ usage = last.before)
    /\ ~config.enabled =>
         (last.nextCalled /\ last.status # 429 /\ ~last.selected /\ ~last.dbError /\ usage = {})

\* the database fails for a request of an address that has used up its limit
C24_Witness ==
  /\ op = "limiter" /\ last # NoInvocation
  /\ config.enabled
  /\ last.dbError /\ last.nextCalled
  /\ \E count \in storedCounts(last.before, last.clientIp, last.today) : count >= config.limit
  /\ passed[<<last.clientIp, last.today>>].next > config.limit
----------------------------------------------------------------------------
(* The gender of a birth_data object.                                       *)

MaleValues == {<<"m", "a", "l", "e">>, <<"nan">>, <<"nan", "xing">>}

FemaleValues == {<<"f", "e", "m", "a", "l", "e">>, <<"nv">>, <<"nv", "xing">>}

\* the calls that returned an analysis, both collaborators answering
ReturnedCalls ==
  {i \in 1..Len(calls) :
     collaborators = Answering /\ calls[i].stage = "returned" /\ calls[i].chart # NoResult}

\* the stem of the first luck period of the call goes forward (the stem after
\* the month stem) or backward (the stem before it)
FirstLuckStemOf(i, forward) ==
  StemAfter(calls[i].chart.month_pillar.stem, IF forward THEN 1 ELSE 9)

YangYear(i) == getStemIndex(calls[i].chart.year_pillar.stem) % 2 = 0

\* C27: every accepted gender value is handled by its meaning: male, 男 and
\* 男性 are reported as 男性 and take the luck-cycle direction of a male
\* (forward in a yang year), female, 女 and 女性 are reported as 女性 and take
\* the direction of a female (forward in a yin year).
C27_GenderByMeaning ==
  /\ validGenders = MaleValues \cup FemaleValues
  /\ \A i \in ReturnedCalls :
       /\ calls[i].birth_data.gender.chars \in MaleValues =>
            /\ calls[i].outcome.basic_info.personal_data.gender = <<"nan", "xing">>
            /\ calls[i].outcome.dayun_analysis.dayun_sequence[1].stem
                 = FirstLuckStemOf(i, YangYear(i))
       /\ calls[i].birth_data.gender.chars \in FemaleValues =>
            /\ calls[i].outcome.basic_info.personal_data.gender = <<"nv", "xing">>
            /\ calls[i].outcome.dayun_analysis.dayun_sequence[1].stem
                 = FirstLuckStemOf(i, ~YangYear(i))
----------------------------------------------------------------------------
(* The validation middleware and the checks of the analyzer.                *)

\* the calls whose birth data validateBaziData accepts at the time of the call
AcceptedByValidator ==
  {i \in 1..Len(calls) :
     validateBaziData(calls[i].birth_data, calls[i].entered_at) = NoError}

\* C28: every birth-data record that InputValidator.validateBaziData accepts
\* is accepted by the checks at the start of performFullBaziAnalysis: no
\* record passes the middleware and is then rejected as invalid input.
C28_ValidatorImpliesAnalyzer ==
  \A i \in AcceptedByValidator :
    /\ validationError(calls[i].birth_data, calls[i].entered_at) = NoError
    /\ ~(calls[i].stage = "thrown" /\ calls[i].outcome.thrown = "Error")
----------------------------------------------------------------------------
(* The zi hour across midnight, and the Nayin names of the pillars.         *)

\* the hour pillar calculateHourPillar answers for hour 0 of the day after
\* the birth day of the call
EarlyZiOfDayAfter ==
  LET next == NextDay(input.birth_date.year, input.birth_date.month, input.birth_date.day)
  IN calculateHourPillar(0, calculateDayPillar(next.year, next.month, next.day).stemIndex,
                         next.year, next.month, next.day)

\* C29: with a day-pillar lookup whose stem index advances by one (mod 10)
\* per calendar day, the hour pillar of hour 23 of day D has the stem and the
\* branch of the hour pillar of hour 0 of day D+1, for every day stem.
C29_LateZiIsNextEarlyZi ==
  (/\ BaziDone
   /\ birthHourOf(input.birth_time) = 23
   /\ LookupOfDayAfter.stemIndex = (LookupOfBirthDay.stemIndex + 1) % 10) =>
    /\ result.hour_pillar.stem = EarlyZiOfDayAfter.stem
    /\ result.hour_pillar.branch = EarlyZiOfDayAfter.branch
    /\ EarlyZiOfDayAfter.is_early_zishi /\ result.hour_pillar.is_late_zishi

\* 23:xx of a gui day: the day after is a jia day, whose hour 0 is jia-zi
C29_Witness ==
  /\ BaziDone
  /\ input.birth_time = <<23>>
  /\ result.day_pillar.stem = "gui"
  /\ LookupOfDayAfter.stem = "jia"
  /\ EarlyZiOfDayAfter.stem = "jia" /\ EarlyZiOfDayAfter.branch = "zi"
  /\ result.hour_pillar.stem = "jia" /\ result.hour_pillar.branch = "zi"

\* the positions of the sixty-cycle that carry the stem and the branch
CyclePositions(stem, branch) ==
  {k \in 0..59 : k % 10 = getStemIndex(stem) /\ k % 12 = getBranchIndex(branch)}

\* stem and branch form a pair of the sixty-cycle and name is the entry of
\* nayinTable under that pair
NayinFound(pillar, name) ==
  /\ getStemIndex(pillar.stem) % 2 = getBranchIndex(pillar.branch) % 2
  /\ Cardinality(CyclePositions(pillar.stem, pillar.branch)) = 1
  /\ \A k \in CyclePositions(pillar.stem, pillar.branch) : name = nayinTable[(k \div 2) + 1]

====
